---- MODULE Spec2Model ----
(***************************************************************************)
(* A model of the krunker client: the wire codec and Socket                *)
(* (src/socket.rs), the message schema (src/messages.rs) and the Player    *)
(* tick engine (src/player.rs).                                            *)
(*                                                                         *)
(* Strings are sequences of character codes, so that their MessagePack     *)
(* encoding has a length.  World coordinates are fixed-point integers in   *)
(* units of 1/10000, angles are integers in microradians.                  *)
(***************************************************************************)
EXTENDS Integers, Sequences, FiniteSets, TLC

(* ---------------------------------------------------------------- bounds *)
\* Frames the server delivers to the reader task in one session.
MaxInbound == 4
\* Calls of Socket::encode_message in one session.
MaxEncodes == 3
\* Calls the user makes on the Player in one session.
MaxCalls == 2
\* cells after the start cell in a path that walk_to follows
MaxPath == 1

VARIABLES
    \* Socket (socket.rs:26-31)
    prime,        \* Socket.prime, copied from the Client
    ws_write,     \* Socket.ws_write is Some
    num,          \* Socket.num
    messages,     \* Socket.messages, the inbound queue shared with the reader task
    \* the reader task spawned by Socket::connect, and the peer
    readerPc,     \* "reading", "done" (stream ended) or "panicked"
    nRead,        \* frames the reader has pulled from the stream
    stream,       \* frames the server will still deliver in this session
    wire,         \* frames written to the WebSocket sink, in wire order
    encodes,      \* calls of encode_message so far
    \* Player (player.rs:89-108)
    account, id, disconnected, ready, in_game, walking,
    tick, position, rotation, state_buffer,
    map,          \* Player.map is Some
    \* tasks: the ticker task of run_tick and the caller's task
    lock,         \* owner of the Player mutex, or "none"
    pc,           \* where each task is
    pending,      \* per task: the drained messages tick() still has to dispatch
    out,          \* per task: index in wire of the frame whose write is pending, or 0
    calls,        \* calls the user has made on the Player
    path,         \* cells of its path the running walk_to still has to reach
    ret,          \* what the caller's last finished call returned: [op, val]
    \* what the caller of the bare Socket has got back so far
    recvLog,      \* entries the reader task has appended
    drained,      \* concatenation of the vectors get_messages returned
    encLog,       \* the frames encode_message returned
    \* Map (map.rs:100-106) and the call of Map::new that builds it
    raw_map,      \* the RawMap handed to Map::new
    loaded,       \* "no" before Map::new returns, then "ok" or its error
    bounds,       \* Map.bounds
    grid,         \* the occupancy grid generate_grid returned to Map::new
    walkable_grid,\* Map.walkable_grid
    answer        \* what the last query on the Map returned: [op, arg, val]

mapVars == <<raw_map, loaded, bounds, grid, walkable_grid, answer>>
\* what no operation of the Socket or the Player changes: the prime and the Map
fixedVars == <<prime, mapVars>>
sockVars == <<fixedVars, ws_write, num, messages, readerPc, nRead, stream, wire, encodes>>
playerVars == <<account, id, disconnected, ready, in_game, walking,
                tick, position, rotation, state_buffer, map>>
taskVars == <<lock, pc, pending, out, ret, calls, path>>
logVars == <<recvLog, drained, encLog>>
vars == <<sockVars, playerVars, taskVars, logVars>>
\* the reader task and the stream it reads
readerVars == <<readerPc, nRead, stream>>

Tasks == {"ticker", "user"}

(* ------------------------------------------------- JSON / MessagePack values *)
\* serde_json::Value, restricted to what the protocol uses.
Nil == [t |-> "nil", v |-> <<>>]
Bool(b) == [t |-> "bool", v |-> <<b>>]
Num(n) == [t |-> "int", v |-> <<n>>]
\* a float, held in units of 1/10000
F32(n) == [t |-> "f32", v |-> <<n>>]
Str(s) == [t |-> "str", v |-> s]
Arr(xs) == [t |-> "arr", v |-> xs]
\* an object: a sequence of <<key, value>> pairs, key a string
Obj(kvs) == [t |-> "map", v |-> kvs]

RECURSIVE Flatten(_)
Flatten(ss) == IF ss = <<>> THEN <<>> ELSE Head(ss) \o Flatten(Tail(ss))

\* rmp_serde::encode::to_vec on a Value: the smallest MessagePack form, for
\* the integers -32768 .. 65535 the protocol's frames hold.
PackInt(n) ==
    IF n >= 0 /\ n <= 127 THEN <<n>>
    ELSE IF n < 0 /\ n >= -32 THEN <<256 + n>>
    ELSE IF n >= 128 /\ n <= 255 THEN <<204, n>>
    ELSE IF n >= 256 /\ n <= 65535 THEN <<205, n \div 256, n % 256>>
    ELSE IF n < -32 /\ n >= -128 THEN <<208, 256 + n>>
    ELSE <<209, (65536 + n) \div 256, (65536 + n) % 256>>

RECURSIVE Pack(_)
Pack(x) ==
    CASE x.t = "nil" -> <<192>>
      [] x.t = "bool" -> IF x.v[1] THEN <<195>> ELSE <<194>>
      [] x.t = "int" -> PackInt(x.v[1])
      [] x.t = "str" -> <<160 + Len(x.v)>> \o x.v
      [] x.t = "arr" ->
            (IF Len(x.v) <= 15 THEN <<144 + Len(x.v)>> ELSE <<220, 0, Len(x.v)>>)
            \o Flatten([i \in 1..Len(x.v) |-> Pack(x.v[i])])
      [] x.t = "map" ->
            <<128 + Len(x.v)>>
            \o Flatten([i \in 1..Len(x.v) |-> Pack(Str(x.v[i][1])) \o Pack(x.v[i][2])])

\* rmp_serde::decode::from_slice::<Value>: one value from the front of the
\* bytes; trailing bytes are not inspected.
UnpackFail == [ok |-> FALSE, val |-> Nil, rest |-> <<>>]
UnpackOk(val, rest) == [ok |-> TRUE, val |-> val, rest |-> rest]
Drop(b, n) == SubSeq(b, n + 1, Len(b))

RECURSIVE Unpack(_), UnpackItems(_, _), UnpackPairs(_, _)
Unpack(b) ==
    IF b = <<>> THEN UnpackFail
    ELSE LET h == Head(b)
             r == Tail(b)
         IN  CASE h <= 127 -> UnpackOk(Num(h), r)
               [] h >= 224 -> UnpackOk(Num(h - 256), r)
               [] h = 192 -> UnpackOk(Nil, r)
               [] h = 194 -> UnpackOk(Bool(FALSE), r)
               [] h = 195 -> UnpackOk(Bool(TRUE), r)
               [] h = 204 -> IF Len(r) < 1 THEN UnpackFail
                             ELSE UnpackOk(Num(r[1]), Drop(r, 1))
               [] h = 205 -> IF Len(r) < 2 THEN UnpackFail
                             ELSE UnpackOk(Num(r[1] * 256 + r[2]), Drop(r, 2))
               [] h = 208 -> IF Len(r) < 1 THEN UnpackFail
                             ELSE UnpackOk(Num(IF r[1] >= 128 THEN r[1] - 256 ELSE r[1]),
                                           Drop(r, 1))
               [] h >= 160 /\ h <= 191 ->
                     IF Len(r) < h - 160 THEN UnpackFail
                     ELSE UnpackOk(Str(SubSeq(r, 1, h - 160)), Drop(r, h - 160))
               [] h >= 144 /\ h <= 159 -> UnpackItems(h - 144, r)
               [] h >= 128 /\ h <= 143 -> UnpackPairs(h - 128, r)
               [] OTHER -> UnpackFail
UnpackItems(n, b) ==
    IF n = 0 THEN UnpackOk(Arr(<<>>), b)
    ELSE LET first == Unpack(b)
         IN  IF ~first.ok THEN UnpackFail
             ELSE LET more == UnpackItems(n - 1, first.rest)
                  IN  IF ~more.ok THEN UnpackFail
                      ELSE UnpackOk(Arr(<<first.val>> \o more.val.v), more.rest)
UnpackPairs(n, b) ==
    IF n = 0 THEN UnpackOk(Obj(<<>>), b)
    ELSE LET key == Unpack(b)
         IN  IF ~key.ok \/ key.val.t # "str" THEN UnpackFail
             ELSE LET val == Unpack(key.rest)
                  IN  IF ~val.ok THEN UnpackFail
                      ELSE LET more == UnpackPairs(n - 1, val.rest)
                           IN  IF ~more.ok THEN UnpackFail
                               ELSE UnpackOk(Obj(<<(<<key.val.v, val.val>>)>> \o more.val.v),
                                             more.rest)

(* ------------------------------------------------------------ strings *)
S_po == <<112, 111>>
S_pi == <<112, 105>>
S_load == <<108, 111, 97, 100>>
S_a == <<97>>
S_en == <<101, 110>>
S_q == <<113>>
S_io_init == <<105, 111, 45, 105, 110, 105, 116>>
S_init == <<105, 110, 105, 116>>
S_ready == <<114, 101, 97, 100, 121>>
S_0 == <<48>>
S_l == <<108>>
S_end == <<101, 110, 100>>
\* "0-" followed by the decimal digits of n, the keys of the tick state object
RECURSIVE DecStr(_)
DecStr(n) == IF n < 10 THEN <<48 + n>> ELSE DecStr(n \div 10) \o <<48 + (n % 10)>>
StateKey(n) == <<48, 45>> \o DecStr(n)

(* ------------------------------------------------------------- codec *)
\* socket.rs:134, self.num = (self.num + self.prime) & 0xFF on u16
EncodeNum(n, p) == ((n + p) % 65536) % 256
\* the u16 addition of socket.rs:134 overflows
OverflowsU16(n, p) == n + p > 65535
\* the padding with its two nibbles in the wrong order
PaddingSwapped(n) == <<n % 16, (n \div 16) % 16>>
\* socket.rs:136-137, the two padding bytes
Padding(n) == <<(n \div 16) % 16, n % 16>>
\* What encode_message returns once num is n: the MessagePack of msg followed
\* by the padding.  The payload is kept as the value; FrameBytes gives the bytes.
EncodeMessage(msg, n) == [op |-> "binary", msg |-> msg, pad |-> Padding(n)]
FrameBytes(f) == Pack(f.msg) \o f.pad
\* the close frame SplitSink::close writes
CloseFrame == [op |-> "close", msg |-> Nil, pad |-> <<>>]

\* socket.rs:142-154.  res is "ok", "err" (an Err value) or "panic".
DecodeResult(res, type, args) == [res |-> res, type |-> type, args |-> args]
decode_message(msg) ==
    IF Len(msg) < 2
    THEN DecodeResult("panic", <<>>, <<>>)            \* msg.len() - 2 underflows / slice out of range
    ELSE LET r == Unpack(SubSeq(msg, 1, Len(msg) - 2))
         IN  IF ~r.ok THEN DecodeResult("err", <<>>, <<>>)                 \* from_slice(..)?
             ELSE IF r.val.t # "arr" THEN DecodeResult("panic", <<>>, <<>>) \* as_array_mut().unwrap()
             ELSE IF r.val.v = <<>> THEN DecodeResult("panic", <<>>, <<>>)  \* first().unwrap()
             ELSE IF r.val.v[1].t # "str"
                  THEN DecodeResult("panic", <<>>, <<>>)                   \* as_str().unwrap()
             ELSE DecodeResult("ok", r.val.v[1].v, Tail(r.val.v))

(* ---------------------------------------------------- message schema *)
\* player.rs:38, the default tick interval
TickIntervalMillis == 66
TickIntervalMicros == TickIntervalMillis * 1000
\* player.rs:85, MOVEMENT_SPEED = 0.0000459, in units of 1e-7
MovementSpeedE7 == 459
\* messages.rs:85, the cap of dt
MaxDt == 3333

\* f32::round of a / b for b > 0: half away from zero
RoundDiv(a, b) == IF a >= 0 THEN (2 * a + b) \div (2 * b) ELSE -((2 * (-a) + b) \div (2 * b))
Min(a, b) == IF a < b THEN a ELSE b

\* messages.rs:13-15
pong == Arr(<<Str(S_po)>>)
\* messages.rs:17-19
load == Arr(<<Str(S_load), Nil>>)
\* messages.rs:21-23
login(acc) == Arr(<<Str(S_a), Num(1), Arr(<<Str(acc.username), Str(acc.password), Nil>>), Nil>>)
\* messages.rs:25-61
enter ==
    Arr(<<Str(S_en),
          Arr(<<Num(0), Num(2482), Arr(<<Num(-1), Num(-1)>>), Num(-1), Num(-1), Num(2),
                Num(0), Num(0), Num(1), Num(-1), Num(-1), Num(1), Num(0), Num(-1), Num(-1),
                Num(-1), Num(-1), Num(-1), Num(-1), Num(0), Num(-1), Num(-1), Num(1),
                Num(1), Num(1), Num(1), Num(-1)>>),
          Num(16), Num(18), Bool(FALSE)>>)
\* messages.rs:63-65
init_tick ==
    Arr(<<Str(S_q), Num(0), Num(0), Str(<<51, 48, 48, 48>>), Num(2), Arr(<<Num(0), Num(0)>>),
          Obj(<<(<<StateKey(4), Num(-1)>>)>>
              \o [i \in 1..10 |-> <<StateKey(4 + i), Num(0)>>])>>)
\* messages.rs:67-95.  rot is <<>> (None) or <<angle>>, state is Nil or the
\* object parsed from state_str.
tick_message(num_tick, rot, state) ==
    Arr(<<Str(S_q), Num(0), Num(num_tick),
          Str(DecStr(Min(RoundDiv(TickIntervalMicros, 10), MaxDt))), Num(2),
          IF rot = <<>> THEN Nil ELSE Arr(<<Num(0), Num(RoundDiv(-rot[1], 1000))>>),
          state>>)
\* player.rs:202, the state string of walk
walk_state(state) == Obj(<<(<<StateKey(4), Num(IF state THEN 1 ELSE -1)>>)>>)
\* player.rs:219-222, the state string of shoot
shoot_state(state) ==
    Obj(<<(<<StateKey(5), Num(IF state THEN 1 ELSE 0)>>),
          (<<StateKey(6), Num(IF state THEN 1 ELSE 0)>>)>>)

\* a frame on the wire is a "q" frame; its tick number; it is the init_tick
\* (the one "q" frame that carries the whole state object)
IsQ(f) == f.op = "binary" /\ f.msg.v[1].v = S_q
QTick(f) == f.msg.v[3].v[1]
IsInitTick(f) == IsQ(f) /\ f.msg.v[7].t = "map" /\ Len(f.msg.v[7].v) = Len(init_tick.v[7].v)
IsEnter(f) == f.op = "binary" /\ f.msg.v[1].v = S_en

(* ------------------------------------------------------------ Socket *)
NoRet == [op |-> "none", val |-> "none"]
Ret(op, val) == [op |-> op, val |-> val]

\* How a call of Socket::send can end (socket.rs:96-108): the u16 addition
\* of encode_message overflows and a build with overflow checks panics; the
\* writer is None ("Socket not open"); the sink takes the frame and the write
\* is pending; the sink returns an error.
SendOutcomes ==
    (IF OverflowsU16(num, prime) THEN {"panic"} ELSE {})
    \cup (IF ws_write THEN {"pending", "wserr"} ELSE {"notopen"})
SendError(r) == IF r = "notopen" THEN "Socket not open" ELSE "WebSocket error"

\* socket.rs:96-105, Socket::send up to the suspension of the write, by task t
SocketSend(t, msg, r) ==
    /\ encodes < MaxEncodes
    /\ r \in SendOutcomes
    /\ encodes' = encodes + 1
    /\ num' = IF r = "panic" THEN num ELSE EncodeNum(num, prime)
    /\ wire' = IF r = "pending" THEN Append(wire, EncodeMessage(msg, num')) ELSE wire
    /\ out' = IF r = "pending" THEN [out EXCEPT ![t] = Len(wire) + 1] ELSE out
    /\ UNCHANGED <<fixedVars, ws_write>>

\* socket.rs:105-107, the pending write of task t completes
SocketSendDone(t) ==
    /\ out[t] # 0
    /\ out' = [out EXCEPT ![t] = 0]
    /\ UNCHANGED <<fixedVars, ws_write, num, wire, encodes>>

\* How a call of Socket::close can end (socket.rs:110-116)
CloseOutcomes == IF ws_write THEN {"pending", "wserr"} ELSE {"ok"}

\* socket.rs:110-112, Socket::close up to the suspension of ws_write.close()
SocketClose(t, r) ==
    /\ r \in CloseOutcomes
    /\ wire' = IF r = "pending" THEN Append(wire, CloseFrame) ELSE wire
    /\ out' = IF r = "pending" THEN [out EXCEPT ![t] = Len(wire) + 1] ELSE out
    /\ UNCHANGED <<fixedVars, ws_write, num, encodes>>

\* socket.rs:113-115, ws_write.close() has returned Ok
SocketCloseDone(t) ==
    /\ out[t] # 0
    /\ ws_write' = FALSE
    /\ out' = [out EXCEPT ![t] = 0]
    /\ UNCHANGED <<fixedVars, num, wire, encodes>>

\* socket.rs:122-124, get_messages: what drain(..).collect() returns and
\* what it leaves in the queue
Drained(q) == q
\* a get_messages that copies the queue and does not empty it
RemainingKept(q) == q
Remaining(q) == <<>>

\* A frame the stream yields to the reader task: a binary frame with its
\* bytes, a close frame, another kind of frame (text, ping, ...), or an error.
BinaryFrame(data) == [op |-> "binary", data |-> data]
OtherFrame(op) == [op |-> op, data |-> <<>>]

\* entries of the inbound queue (socket.rs:20-24)
SocketMessage(kind, type, args) == [kind |-> kind, type |-> type, args |-> args]
ErrorEntry == SocketMessage("Error", <<>>, <<>>)
CloseEntry == SocketMessage("Close", <<>>, <<>>)

\* socket.rs:73-88: the entry the reader pushes for a frame, or kind "panic"
Classify(f) ==
    CASE f.op = "binary" ->
            LET d == decode_message(f.data)
            IN  CASE d.res = "ok" -> SocketMessage("Message", d.type, d.args)
                  [] d.res = "err" -> ErrorEntry
                  [] OTHER -> SocketMessage("panic", <<>>, <<>>)
      [] f.op = "close" -> CloseEntry
      [] OTHER -> ErrorEntry

\* The reader task (socket.rs:70-91) takes one frame.  The stream ends after
\* a close frame and after a stream error; a panic ends the task.
ReaderStep(f) ==
    /\ readerPc = "reading"
    /\ nRead < MaxInbound
    /\ nRead' = nRead + 1
    /\ LET e == Classify(f)
       IN  IF e.kind = "panic"
           THEN /\ readerPc' = "panicked"
                /\ messages' = messages
           ELSE /\ messages' = Append(messages, e)
                /\ readerPc' = IF f.op \in {"close", "ioerr"} THEN "done" ELSE "reading"

(* ------------------------------------------ the Map: geometry and input *)
\* Lengths and coordinates of the Map are integers in units of 1/10000, as the
\* Player's position is.  An Option is a sequence: <<>> is None, <<v>> is Some.
Max(a, b) == IF a > b THEN a ELSE b
Range(s) == {s[k] : k \in DOMAIN s}
\* map.rs:20
CELL_SIZE == 24000
\* map.rs:21
CHUNK_SIZE == 130 * CELL_SIZE
\* map.rs:22, (15.0 / CELL_SIZE) as usize
PLAYER_HEIGHT == 150000 \div CELL_SIZE
\* map.rs:10
EXCLUDE_OBJECT_IDS == {4, 13, 14, 15, 18, 23, 26, 29, 32, 38, 45, 77}

\* utils.rs:5-13
AABB(a, b, c, d, e, f) ==
    [min_x |-> a, min_y |-> b, min_z |-> c, max_x |-> d, max_y |-> e, max_z |-> f]
\* map.rs:11-18
MAX_MAP_BOUNDS == AABB(-8000000, -2000000, -8000000, 8000000, 2000000, 8000000)
\* utils.rs:16-25
zero == AABB(0, 0, 0, 0, 0, 0)
\* utils.rs:27-46
extend_by(self, other) ==
    AABB(Min(self.min_x, other.min_x), Min(self.min_y, other.min_y),
         Min(self.min_z, other.min_z), Max(self.max_x, other.max_x),
         Max(self.max_y, other.max_y), Max(self.max_z, other.max_z))
\* utils.rs:48-67
limit_by(self, other) ==
    AABB(Max(self.min_x, other.min_x), Max(self.min_y, other.min_y),
         Max(self.min_z, other.min_z), Min(self.max_x, other.max_x),
         Min(self.max_y, other.max_y), Min(self.max_z, other.max_z))
\* utils.rs:69-73
intersects(self, other) ==
    /\ self.min_x < other.max_x /\ self.max_x > other.min_x
    /\ self.min_y < other.max_y /\ self.max_y > other.min_y
    /\ self.min_z < other.max_z /\ self.max_z > other.min_z
\* utils.rs:75-79
contains(self, p) ==
    /\ self.min_x <= p.x /\ self.max_x >= p.x
    /\ self.min_y <= p.y /\ self.max_y >= p.y
    /\ self.min_z <= p.z /\ self.max_z >= p.z

\* a float cast with "as usize": negative values saturate to 0
AsUsize(n) == IF n < 0 THEN 0 ELSE n
\* ceil of a / b for b > 0
CeilDiv(a, b) == -((-a) \div b)
\* utils.rs:99-105, floor((p - min) / CELL_SIZE) as usize on each axis
position_to_cell(map_bounds, p) ==
    <<AsUsize((p.x - map_bounds.min_x) \div CELL_SIZE),
      AsUsize((p.y - map_bounds.min_y) \div CELL_SIZE),
      AsUsize((p.z - map_bounds.min_z) \div CELL_SIZE)>>

\* map.rs:25-38, a RawMapObject: position p, and the options si, i, l, bo, d
RawObject(p, si, i, l, bo, d) ==
    [p |-> p, si |-> si, i |-> i, l |-> l, bo |-> bo, d |-> d]
\* map.rs:46-53, a RawMap: the size table xyz, the objects and the spawns
RawMap(sizes, objects, spawns) ==
    [sizes |-> sizes, objects |-> objects, spawns |-> spawns]
\* no query has been made on the Map
NoAnswer == [op |-> "none", arg |-> <<>>, via |-> <<>>, val |-> <<>>]
\* Map::new has not been called
NoMapLoaded ==
    /\ raw_map = RawMap(<<>>, <<>>, <<>>)
    /\ loaded = "no"
    /\ bounds = zero
    /\ grid = [shape |-> <<0, 0, 0>>, at |-> <<>>]
    /\ walkable_grid = [shape |-> <<0, 0, 0>>, at |-> <<>>]
    /\ answer = NoAnswer

(* -------------------------------------------------------------- Init *)
\* The state PlayerBuilder::connect leaves (player.rs:53-82, socket.rs:34-41,
\* 62-69): the socket is open, num is 0, the queue is empty, the reader and
\* the ticker are running.
InitPlayer(primes, accounts, sessions) ==
    /\ prime \in primes
    /\ stream \in sessions
    /\ ws_write = TRUE
    /\ num = 0
    /\ messages = <<>>
    /\ readerPc = "reading"
    /\ nRead = 0
    /\ wire = <<>>
    /\ encodes = 0
    /\ account \in accounts
    /\ id = <<>>
    /\ disconnected = FALSE
    /\ ready = FALSE
    /\ in_game = FALSE
    /\ walking = FALSE
    /\ tick = 0
    /\ position = [x |-> 0, y |-> 0, z |-> 0]
    /\ rotation = 0
    /\ state_buffer = <<>>
    /\ map = FALSE
    /\ lock = "none"
    /\ pc = [t \in Tasks |-> IF t = "ticker" THEN "interval" ELSE "idle"]
    /\ pending = [t \in Tasks |-> <<>>]
    /\ out = [t \in Tasks |-> 0]
    /\ ret = NoRet
    /\ calls = 0
    /\ path = 0
    /\ recvLog = <<>>
    /\ drained = <<>>
    /\ encLog = <<>>
\* the same with no Map loaded
InitWith(primes, accounts, sessions) ==
    InitPlayer(primes, accounts, sessions) /\ NoMapLoaded

(* -------------------------------------- the Socket alone (SpecSocket) *)
\* primes the Client can hold (lib.rs:84-90 parses any u16)
Primes == {0, 11, 255, 256, 4099, 65535}

\* frames the peer can send to a bare Socket
RawFrames ==
    { BinaryFrame(<<>>), BinaryFrame(<<192>>), BinaryFrame(<<0, 11>>),
      BinaryFrame(<<192, 0, 11>>), BinaryFrame(<<193, 0, 11>>),
      BinaryFrame(<<144, 0, 11>>), BinaryFrame(<<145, 1, 0, 11>>),
      BinaryFrame(<<145, 161, 0, 11>>),
      BinaryFrame(Pack(pong) \o <<0, 11>>),
      BinaryFrame(Pack(Arr(<<Str(S_pi), Num(7)>>)) \o <<1, 6>>),
      OtherFrame("close"), OtherFrame("text"), OtherFrame("ioerr") }

InitSock == InitWith(Primes, {<<>>}, {<<>>})

\* the reader task takes a frame from the stream
SockRecv ==
    /\ \E f \in RawFrames : ReaderStep(f)
    /\ recvLog' = recvLog \o SubSeq(messages', Len(messages) + 1, Len(messages'))
    /\ UNCHANGED <<fixedVars, ws_write, num, stream, wire, encodes, playerVars, taskVars,
                   drained, encLog>>

\* the owner calls send(msg)
SockSend ==
    /\ calls' = calls
    /\ path' = path
    /\ pc["user"] = "idle"
    /\ \E msg \in {pong, load} : \E r \in SendOutcomes :
          /\ SocketSend("user", msg, r)
          /\ encLog' = IF r = "panic" THEN encLog
                       ELSE Append(encLog, EncodeMessage(msg, num'))
          /\ pc' = [pc EXCEPT !["user"] = CASE r = "pending" -> "send_w"
                                            [] r = "panic" -> "panicked"
                                            [] OTHER -> "idle"]
          /\ ret' = CASE r = "pending" -> ret
                      [] r = "panic" -> Ret("send", "panic")
                      [] OTHER -> Ret("send", SendError(r))
    /\ UNCHANGED <<messages, readerVars, playerVars, lock, pending,
                   recvLog, drained>>

\* the pending write of send completes
SockSendDone ==
    /\ calls' = calls
    /\ path' = path
    /\ pc["user"] = "send_w"
    /\ SocketSendDone("user")
    /\ pc' = [pc EXCEPT !["user"] = "idle"]
    /\ ret' = Ret("send", "Ok")
    /\ UNCHANGED <<messages, readerVars, playerVars, lock, pending, logVars>>

\* the owner calls close()
SockClose ==
    /\ calls' = calls
    /\ path' = path
    /\ pc["user"] = "idle"
    /\ \E r \in CloseOutcomes :
          /\ SocketClose("user", r)
          /\ pc' = [pc EXCEPT !["user"] = IF r = "pending" THEN "close_w" ELSE "idle"]
          /\ ret' = CASE r = "pending" -> ret
                      [] r = "ok" -> Ret("close", "Ok")
                      [] OTHER -> Ret("close", "WebSocket error")
    /\ UNCHANGED <<messages, readerVars, playerVars, lock, pending, logVars>>

\* the pending ws_write.close() completes
SockCloseDone ==
    /\ calls' = calls
    /\ path' = path
    /\ pc["user"] = "close_w"
    /\ SocketCloseDone("user")
    /\ pc' = [pc EXCEPT !["user"] = "idle"]
    /\ ret' = Ret("close", "Ok")
    /\ UNCHANGED <<messages, readerVars, playerVars, lock, pending, logVars>>

\* the owner calls get_messages()
SockGetMessages ==
    /\ calls' = calls
    /\ path' = path
    /\ pc["user"] = "idle"
    /\ drained' = drained \o Drained(messages)
    /\ messages' = Remaining(messages)
    /\ ret' = Ret("get_messages", "Ok")
    /\ UNCHANGED <<fixedVars, ws_write, num, readerVars, wire, encodes, playerVars,
                   lock, pc, pending, out, recvLog, encLog>>

\* The writing half of the Socket: send and close.
NextSock ==
    \/ SockSend
    \/ SockSendDone
    \/ SockClose
    \/ SockCloseDone

\* The reading half of the Socket, which shares no state with the writing
\* half: the reader task and get_messages.
NextReader ==
    \/ SockRecv
    \/ SockGetMessages

SpecSocket == InitSock /\ [][NextSock]_vars
SpecReader == InitSock /\ [][NextReader]_vars

(* ------------------------------------------------- claims on the Socket *)
\* C7: get_messages drains the inbound queue atomically.  Under every
\* interleaving with the reader's appends, what the reader has appended is
\* exactly what the get_messages calls have returned so far followed by what is
\* still queued, in the same order (each entry returned once, FIFO), and a
\* drain that returns entries leaves the queue empty.
C7_DrainAtomicFifo ==
    /\ [](recvLog = drained \o messages)
    /\ [][drained' # drained => (messages' = <<>> /\ drained' = drained \o messages)]_vars
\* two entries were returned by get_messages and the reader has appended again
C7_Witness == Len(drained) >= 2 /\ messages # <<>> /\ Len(recvLog) >= 3

\* C8: num starts at 0 and every encode adds prime modulo 256, so the k-th
\* encoded message of a socket ends with the high and the low nibble of
\* (k * prime) mod 256, each in 0..15; with prime 11 the first two messages end
\* with 0x00 0x0B and 0x01 0x06.
C8_RollingPadding ==
    /\ num = (Len(encLog) * prime) % 256
    /\ \A k \in 1..Len(encLog) :
          LET b == FrameBytes(encLog[k])
              n == (k * prime) % 256
          IN  /\ Len(b) = Len(Pack(encLog[k].msg)) + 2
              /\ b[Len(b) - 1] = n \div 16
              /\ b[Len(b)] = n % 16
              /\ b[Len(b) - 1] \in 0..15
              /\ b[Len(b)] \in 0..15
    /\ (prime = 11 /\ Len(encLog) >= 1) => encLog[1].pad = <<0, 11>>
    /\ (prime = 11 /\ Len(encLog) >= 2) => encLog[2].pad = <<1, 6>>
\* two messages were encoded with prime 11
C8_Witness == prime = 11 /\ Len(encLog) >= 2 /\ Len(wire) >= 1

\* C9: decoding never panics: every bad frame is reported as an error value,
\* the reader enqueues Error(e) for it and keeps reading.
C9_DecodeNeverPanics == readerPc # "panicked"

\* C10: once close has been called and has returned, the writer is marked
\* as gone (so that every later send fails with "Socket not open").
C10_CloseMarksWriterGone == (ret.op = "close" /\ pc["user"] = "idle") => ~ws_write

(* ------------------------------------------------------ message parsing *)
\* fixed point: a JSON number n as a coordinate in units of 1/10000
Coord(n) == n * 10000
Vec3(x, y, z) == [x |-> x, y |-> y, z |-> z]
IsNumber(x) == x.t = "int"
\* as_f64() takes an integer or a float; the value as f32, in units of 1/10000
IsCoordinate(x) == x.t \in {"int", "f32"}
CoordOf(x) == IF x.t = "int" THEN Coord(x.v[1]) ELSE x.v[1]

\* an io_init that takes a first element of any type for the id
io_initLoose(msg) == IF msg = <<>> THEN <<>> ELSE <<msg[1].v>>
\* messages.rs:108-115.  <<>> is the Err, <<s>> the id.
io_init(msg) ==
    IF msg = <<>> THEN <<>>
    ELSE IF msg[1].t # "str" THEN <<>>
    ELSE <<msg[1].v>>

\* a spawn_position that reads the coordinates one element early
spawn_positionEarly(msg, own) ==
    IF msg = <<>> THEN [res |-> "err", pos |-> Vec3(0, 0, 0)]
    ELSE IF msg[1].t # "arr" THEN [res |-> "err", pos |-> Vec3(0, 0, 0)]
    ELSE LET positions == msg[1].v
             hits == {i \in 1..Len(positions) :
                         positions[i].t = "str" /\ positions[i].v = own}
         IN  IF hits = {} THEN [res |-> "none", pos |-> Vec3(0, 0, 0)]
             ELSE LET i == CHOOSE k \in hits : \A j \in hits : k <= j
                  IN  IF Len(positions) < i + 4 THEN [res |-> "err", pos |-> Vec3(0, 0, 0)]
                      ELSE [res |-> "some", pos |-> Vec3(Coord(positions[i + 1].v[1]),
                                                         Coord(positions[i + 2].v[1]),
                                                         Coord(positions[i + 3].v[1]))]

\* messages.rs:117-153.  res is "err", "none" (own id absent) or "some".
SpawnResult(res, pos) == [res |-> res, pos |-> pos]
spawn_position(msg, own) ==
    IF msg = <<>> THEN SpawnResult("err", Vec3(0, 0, 0))
    ELSE IF msg[1].t # "arr" THEN SpawnResult("err", Vec3(0, 0, 0))
    ELSE LET positions == msg[1].v
             hits == {i \in 1..Len(positions) :
                         positions[i].t = "str" /\ positions[i].v = own}
         IN  IF hits = {} THEN SpawnResult("none", Vec3(0, 0, 0))
             ELSE LET i == CHOOSE k \in hits : \A j \in hits : k <= j
                  IN  IF Len(positions) < i + 4 THEN SpawnResult("err", Vec3(0, 0, 0))
                      ELSE IF \E d \in 2..4 : ~IsCoordinate(positions[i + d])
                           THEN SpawnResult("err", Vec3(0, 0, 0))
                      ELSE SpawnResult("some", Vec3(CoordOf(positions[i + 2]),
                                                    CoordOf(positions[i + 3]),
                                                    CoordOf(positions[i + 4])))

\* messages.rs:155-199.  res is "err", "dead" or "alive".
PlayerState(res, tk, pos) == [res |-> res, tick |-> tk, position |-> pos]
player_state(msg) ==
    IF msg = <<>> THEN PlayerState("err", 0, Vec3(0, 0, 0))
    ELSE LET first == msg[1]
         IN  IF first.t = "int"
             THEN IF first.v[1] = 0 THEN PlayerState("dead", 0, Vec3(0, 0, 0))
                  ELSE PlayerState("err", 0, Vec3(0, 0, 0))
             ELSE IF first.t = "arr"
             THEN IF Len(first.v) < 5 THEN PlayerState("err", 0, Vec3(0, 0, 0))
                  ELSE IF ~IsNumber(first.v[1]) \/ \E k \in {3, 4, 5} : ~IsCoordinate(first.v[k])
                       THEN PlayerState("err", 0, Vec3(0, 0, 0))
                  ELSE PlayerState("alive", first.v[1].v[1],
                                   Vec3(CoordOf(first.v[3]), CoordOf(first.v[4]),
                                        CoordOf(first.v[5])))
             ELSE PlayerState("err", 0, Vec3(0, 0, 0))

(* --------------------------------------------------------- prediction *)
\* f32 PI and PI / 2 in microradians
PiMicro == 3141593
\* sin and cos, times 10000, of the angles the model turns the Player to
SinE4(rot) ==
    CASE rot % (2 * PiMicro) = 0 -> 0
      [] rot % (2 * PiMicro) = PiMicro \div 2 -> 10000
      [] rot % (2 * PiMicro) = PiMicro -> 0
      [] OTHER -> -10000
CosE4(rot) ==
    CASE rot % (2 * PiMicro) = 0 -> 10000
      [] rot % (2 * PiMicro) = PiMicro \div 2 -> 0
      [] rot % (2 * PiMicro) = PiMicro -> -10000
      [] OTHER -> 0
\* player.rs:300, 398-399: dist = tick_interval.as_micros() * MOVEMENT_SPEED
WalkDist == (TickIntervalMicros * MovementSpeedE7) \div 1000
\* player.rs:301-302, 400-401
Advance(pos, rot) ==
    [pos EXCEPT !.x = @ + (WalkDist * SinE4(rot)) \div 10000,
                !.z = @ - (WalkDist * CosE4(rot)) \div 10000]
\* player.rs:21-26
State(tk, pos, rot, w) == [tick |-> tk, position |-> pos, rotation |-> rot, walking |-> w]

Abs(a) == IF a < 0 THEN -a ELSE a
\* a max_diff_xz that excludes the bound itself
max_diff_xzStrict(p, q, max_diff) == Abs(p.x - q.x) < max_diff /\ Abs(p.z - q.z) < max_diff
\* utils.rs:90-92, max_diff in units of 1/10000
max_diff_xz(p, q, max_diff) == Abs(p.x - q.x) <= max_diff /\ Abs(p.z - q.z) <= max_diff
\* player.rs:394, the reconciliation threshold 0.5
ReconcileThreshold == 5000

\* player.rs:390
Retain(buf, tk) == SelectSeq(buf, LAMBDA s : s.tick >= tk)
\* a replay that neither moves the position on nor rewrites the snapshots
ReplayKeepsRecords(buf, pos) == [buf |-> buf, pos |-> pos]
\* player.rs:396-405: replay the retained snapshots from pos
RECURSIVE Replay(_, _)
Replay(buf, pos) ==
    IF buf = <<>> THEN [buf |-> <<>>, pos |-> pos]
    ELSE LET s == Head(buf)
             p == IF s.walking THEN Advance(pos, s.rotation) ELSE pos
             more == Replay(Tail(buf), p)
         IN  [buf |-> <<[s EXCEPT !.position = p]>> \o more.buf, pos |-> more.pos]
\* player.rs:389-407: the buffer and the position after an alive update
Reconcile(buf, pos, tk, server) ==
    LET kept == Retain(buf, tk)
    IN  IF kept = <<>> THEN [buf |-> kept, pos |-> pos]
        ELSE IF max_diff_xz(server, Head(kept).position, ReconcileThreshold)
             THEN [buf |-> kept, pos |-> pos]
        ELSE Replay(kept, server)

(* ------------------------------------------------------- Player engine *)
\* a Player lock that is handed out although another task holds it
CanLockAlways(t) == TRUE
\* player.rs:274 and the caller's player.lock().await: the tokio Mutex is free
CanLock(t) == lock = "none"
\* the lock after task t drops its guard
Release(t) == IF lock = t THEN "none" ELSE lock

\* a ticker that does not look at the flag
SeesDisconnectedNever == FALSE
\* player.rs:276, the ticker's check at the top of each wake
SeesDisconnected == disconnected

\* a tick counter that is not advanced
NextTickSame(n) == n
\* a tick counter that skips a number
NextTickSkips(n) == n + 2
\* player.rs:205, 225, 297: self.tick += 1
NextTick(n) == n + 1

\* an enter() that is refused only while in game
EnterRefusedInGameOnly == in_game
\* player.rs:112, the state in which enter() returns its error
EnterRefused == in_game \/ disconnected
\* player.rs:192 and 210, the state in which walk() and shoot() return their error
TickCallRefused == ~in_game \/ disconnected

NoSend == UNCHANGED <<fixedVars, ws_write, num, wire, encodes, out>>

\* A send inside a message handler of tick(): the write is pending (then the
\* task waits at okPc), or the error is returned to tick(), which logs it and
\* goes on with the next message (player.rs:316-318).
Respond(t, msg, okPc) ==
    \E r \in SendOutcomes :
        /\ SocketSend(t, msg, r)
        /\ pc' = [pc EXCEPT ![t] = CASE r = "pending" -> okPc
                                     [] r = "panic" -> "panicked"
                                     [] OTHER -> "dispatch"]
        /\ lock' = IF r = "panic" THEN Release(t) ELSE lock

\* player.rs:111-118, enter() called from a handler
EnterIn(t) ==
    IF EnterRefused
    THEN /\ NoSend
         /\ pc' = [pc EXCEPT ![t] = "dispatch"]
         /\ lock' = lock
    ELSE Respond(t, enter, "resp_w")

\* a tick() that sends its frame whatever the state
TickSendsAlways == TRUE
\* player.rs:289, tick() sends the regular tick frame only in game
TickSends == in_game

\* player.rs:313, the drain at the start of step 3 of tick()
DrainInto(t) ==
    /\ pending' = [pending EXCEPT ![t] = Drained(messages)]
    /\ messages' = Remaining(messages)

\* player.rs:270-282 and 287-296: the ticker wakes, takes the lock, leaves if
\* disconnected, and otherwise starts tick(): the regular tick frame if in
\* game, else straight to the drain.
TickerWake ==
    /\ pc["ticker"] = "interval"
    /\ CanLock("ticker")
    /\ IF SeesDisconnected
       THEN /\ pc' = [pc EXCEPT !["ticker"] = "done"]
            /\ NoSend
            /\ UNCHANGED <<lock, messages, pending>>
       ELSE IF TickSends
       THEN /\ \E r \in SendOutcomes :
                  /\ SocketSend("ticker", tick_message(tick, <<rotation>>, Nil), r)
                  /\ pc' = [pc EXCEPT !["ticker"] = CASE r = "pending" -> "tick_w"
                                                      [] r = "panic" -> "panicked"
                                                      [] OTHER -> "interval"]
                  /\ lock' = IF r = "pending" THEN "ticker" ELSE lock
            /\ UNCHANGED <<messages, pending>>
       ELSE /\ DrainInto("ticker")
            /\ pc' = [pc EXCEPT !["ticker"] = "dispatch"]
            /\ lock' = "ticker"
            /\ NoSend
    /\ UNCHANGED <<readerVars, playerVars, ret, calls, path, logVars>>

\* player.rs:296-313: the regular tick frame is written; count it, predict
\* the position, push the snapshot, drain the queue
TickWritten(t) ==
    /\ pc[t] = "tick_w"
    /\ SocketSendDone(t)
    /\ tick' = NextTick(tick)
    /\ position' = IF walking THEN Advance(position, rotation) ELSE position
    /\ state_buffer' = Append(state_buffer, State(tick', position', rotation, walking))
    /\ DrainInto(t)
    /\ pc' = [pc EXCEPT ![t] = "dispatch"]
    /\ UNCHANGED <<readerVars, account, map, id, disconnected, ready, in_game, walking,
                   rotation, lock, ret, calls, path, logVars>>

\* the angles look_at turns the Player to in the model
LookAngles == {0, PiMicro \div 2}

\* player.rs:324, every drained message is dispatched and tick() returns Ok:
\* the ticker drops the lock and waits for its interval (280-283); walk_to
\* turns to the cell and waits for its own interval, the guard held (156-158)
TickEnd(t) ==
    /\ pc[t] = "dispatch"
    /\ pending[t] = <<>>
    /\ IF t = "ticker"
       THEN /\ pc' = [pc EXCEPT ![t] = "interval"]
            /\ lock' = Release(t)
            /\ rotation' = rotation
       ELSE /\ pc' = [pc EXCEPT ![t] = "wt_wait"]
            /\ lock' = lock
            /\ \E a \in LookAngles : rotation' = a
    /\ UNCHANGED <<sockVars, account, map, id, disconnected, ready, in_game, walking, tick,
                   position, state_buffer, pending, out, ret, calls, path, logVars>>

\* tick() is at a Message of this type
Handling(t, type) ==
    /\ pc[t] = "dispatch"
    /\ pending[t] # <<>>
    /\ Head(pending[t]).kind = "Message"
    /\ Head(pending[t]).type = type
Popped(t) == pending' = [pending EXCEPT ![t] = Tail(@)]
Args(t) == Head(pending[t]).args

\* player.rs:320, an Error or Close entry is dropped
SkipEntry(t) ==
    /\ pc[t] = "dispatch"
    /\ pending[t] # <<>>
    /\ Head(pending[t]).kind # "Message"
    /\ Popped(t)
    /\ UNCHANGED <<sockVars, playerVars, lock, pc, out, ret, calls, path, logVars>>

\* a handler of "pi" that answers with the load frame
OnPiLoad(t) ==
    /\ Handling(t, S_pi)
    /\ Popped(t)
    /\ Respond(t, load, "resp_w")
    /\ UNCHANGED <<messages, readerVars, playerVars, ret, calls, path, logVars>>

\* player.rs:334-336
OnPi(t) ==
    /\ Handling(t, S_pi)
    /\ Popped(t)
    /\ Respond(t, pong, "resp_w")
    /\ UNCHANGED <<messages, readerVars, playerVars, ret, calls, path, logVars>>

\* player.rs:338-340
OnLoad(t) ==
    /\ Handling(t, S_load)
    /\ Popped(t)
    /\ Respond(t, load, "resp_w")
    /\ UNCHANGED <<messages, readerVars, playerVars, ret, calls, path, logVars>>

\* the write of a handler's frame completes
RespWritten(t) ==
    /\ pc[t] = "resp_w"
    /\ SocketSendDone(t)
    /\ pc' = [pc EXCEPT ![t] = "dispatch"]
    /\ UNCHANGED <<messages, readerVars, playerVars, lock, pending, ret, calls, path, logVars>>

\* player.rs:342-344
OnIoInit(t) ==
    /\ Handling(t, S_io_init)
    /\ Popped(t)
    /\ id' = IF io_init(Args(t)) = <<>> THEN id ELSE io_init(Args(t))
    /\ UNCHANGED <<sockVars, account, map, disconnected, ready, in_game, walking, tick,
                   position, rotation, state_buffer, lock, pc, out, ret, calls, path, logVars>>

\* player.rs:346-359: update_info() is a request that can fail; then the map
\* is bound and, if ready, enter() is called
OnInit(t) ==
    /\ Handling(t, S_init)
    /\ Popped(t)
    /\ \E updated \in BOOLEAN :
          IF updated
          THEN /\ \E bound \in BOOLEAN : map' = bound
               /\ IF ready
                  THEN EnterIn(t)
                  ELSE NoSend /\ UNCHANGED <<pc, lock>>
          ELSE NoSend /\ UNCHANGED <<pc, lock, map>>
    /\ UNCHANGED <<messages, readerVars, account, id, disconnected, ready, in_game, walking,
                   tick, position, rotation, state_buffer, ret, calls, path, logVars>>

\* a handler of "ready" that enters without setting the flag
OnReadyKeepsFlag(t) ==
    /\ Handling(t, S_ready)
    /\ Popped(t)
    /\ IF account # <<>>
       THEN Respond(t, login(account[1]), "resp_w")
       ELSE EnterIn(t)
    /\ UNCHANGED <<messages, readerVars, playerVars, ret, calls, path, logVars>>

\* a handler of "ready" that sets the flag with an account too
OnReadySetsFlag(t) ==
    /\ Handling(t, S_ready)
    /\ Popped(t)
    /\ ready' = TRUE
    /\ IF account # <<>>
       THEN Respond(t, login(account[1]), "resp_w")
       ELSE EnterIn(t)
    /\ UNCHANGED <<messages, readerVars, account, map, id, disconnected, in_game, walking,
                   tick, position, rotation, state_buffer, ret, calls, path, logVars>>

\* player.rs:361-368
OnReady(t) ==
    /\ Handling(t, S_ready)
    /\ Popped(t)
    /\ IF account # <<>>
       THEN /\ Respond(t, login(account[1]), "resp_w")
            /\ ready' = ready
       ELSE /\ ready' = TRUE
            /\ EnterIn(t)
    /\ UNCHANGED <<messages, readerVars, account, map, id, disconnected, in_game, walking,
                   tick, position, rotation, state_buffer, ret, calls, path, logVars>>

\* player.rs:370-378: a spawn that names the Player
OnSpawn(t) ==
    /\ Handling(t, S_0)
    /\ Popped(t)
    /\ LET sp == IF id = <<>> THEN SpawnResult("err", Vec3(0, 0, 0))
                 ELSE spawn_position(Args(t), id[1])
       IN  IF sp.res = "some"
           THEN /\ in_game' = TRUE
                /\ walking' = FALSE
                /\ position' = sp.pos
                /\ Respond(t, init_tick, "spawn_w")
           ELSE /\ NoSend
                /\ UNCHANGED <<in_game, walking, position, pc, lock>>
    /\ UNCHANGED <<messages, readerVars, account, map, id, disconnected, ready, tick,
                   rotation, state_buffer, ret, calls, path, logVars>>

\* player.rs:378-379: the init_tick is written, the tick counter restarts
SpawnWritten(t) ==
    /\ pc[t] = "spawn_w"
    /\ SocketSendDone(t)
    /\ tick' = 1
    /\ pc' = [pc EXCEPT ![t] = "dispatch"]
    /\ UNCHANGED <<messages, readerVars, account, map, id, disconnected, ready, in_game,
                   walking, position, rotation, state_buffer, lock, pending, ret, calls, path, logVars>>

\* player.rs:383-411: a player update: dead (then the handler sleeps), alive
\* (reconciliation) or malformed
OnPlayerUpdate(t) ==
    /\ Handling(t, S_l)
    /\ Popped(t)
    /\ LET st == player_state(Args(t))
           rec == Reconcile(state_buffer, position, st.tick, st.position)
       IN  CASE st.res = "dead" ->
                   /\ in_game' = FALSE
                   /\ pc' = [pc EXCEPT ![t] = "sleep"]
                   /\ UNCHANGED <<position, state_buffer>>
             [] st.res = "alive" ->
                   /\ state_buffer' = rec.buf
                   /\ position' = rec.pos
                   /\ UNCHANGED <<in_game, pc>>
             [] OTHER -> UNCHANGED <<in_game, pc, position, state_buffer>>
    /\ UNCHANGED <<sockVars, account, map, id, disconnected, ready, walking, tick, rotation,
                   lock, out, ret, calls, path, logVars>>

\* a death handler that does not enter again after its sleep
SleepEndSilent(t) ==
    /\ pc[t] = "sleep"
    /\ NoSend
    /\ pc' = [pc EXCEPT ![t] = "dispatch"]
    /\ UNCHANGED <<messages, readerVars, playerVars, lock, pending, ret, calls, path, logVars>>

\* player.rs:387-388: the 3 seconds are over, enter() is called
SleepEnd(t) ==
    /\ pc[t] = "sleep"
    /\ EnterIn(t)
    /\ UNCHANGED <<messages, readerVars, playerVars, pending, ret, calls, path, logVars>>

\* player.rs:413-415
OnEnd(t) ==
    /\ Handling(t, S_end)
    /\ Popped(t)
    /\ in_game' = FALSE
    /\ UNCHANGED <<sockVars, account, map, id, disconnected, ready, walking, tick, position,
                   rotation, state_buffer, lock, pc, out, ret, calls, path, logVars>>

\* player.rs:416, any other type
KnownTypes == {S_pi, S_load, S_io_init, S_init, S_ready, S_0, S_l, S_end}
OnOther(t) ==
    /\ pc[t] = "dispatch"
    /\ pending[t] # <<>>
    /\ Head(pending[t]).kind = "Message"
    /\ Head(pending[t]).type \notin KnownTypes
    /\ Popped(t)
    /\ UNCHANGED <<sockVars, playerVars, lock, pc, out, ret, calls, path, logVars>>

(* ------------------------------------------- calls made by the user's task *)
\* The caller holds the Player lock for the whole call (the methods take
\* &mut self through the MutexGuard).
UserCalls == pc["user"] = "idle" /\ CanLock("user") /\ calls < MaxCalls

\* A send of a user call: pending (the caller waits at okPc, holding the
\* lock) or returned as Err by `?`.
UserSend(op, msg, okPc) ==
    \E r \in SendOutcomes :
        /\ SocketSend("user", msg, r)
        /\ pc' = [pc EXCEPT !["user"] = CASE r = "pending" -> okPc
                                          [] r = "panic" -> "panicked"
                                          [] OTHER -> "idle"]
        /\ lock' = IF r = "pending" THEN "user" ELSE Release("user")
        /\ ret' = CASE r = "pending" -> ret
                    [] r = "panic" -> Ret(op, "panic")
                    [] OTHER -> Ret(op, SendError(r))

\* player.rs:111-118
UserEnter ==
    /\ calls' = calls + 1
    /\ path' = path
    /\ UserCalls
    /\ IF EnterRefused
       THEN /\ ret' = Ret("enter", "Player already in game or disconnected")
            /\ NoSend
            /\ UNCHANGED <<pc, lock>>
       ELSE UserSend("enter", enter, "enter_w")
    /\ UNCHANGED <<messages, readerVars, playerVars, pending, logVars>>

\* player.rs:116-117
UserEnterDone ==
    /\ calls' = calls
    /\ path' = path
    /\ pc["user"] = "enter_w"
    /\ SocketSendDone("user")
    /\ pc' = [pc EXCEPT !["user"] = "idle"]
    /\ lock' = Release("user")
    /\ ret' = Ret("enter", "Ok")
    /\ UNCHANGED <<messages, readerVars, playerVars, pending, logVars>>

\* player.rs:191-204
UserWalk ==
    /\ calls' = calls + 1
    /\ path' = path
    /\ UserCalls
    /\ \E state \in BOOLEAN :
          IF TickCallRefused
          THEN /\ ret' = Ret("walk", "Player not in game or disconnected")
               /\ NoSend
               /\ UNCHANGED <<pc, lock, walking>>
          ELSE /\ walking' = state
               /\ UserSend("walk", tick_message(tick, <<>>, walk_state(state)), "walk_w")
    /\ UNCHANGED <<messages, readerVars, account, map, id, disconnected, ready, in_game, tick,
                   position, rotation, state_buffer, pending, logVars>>

\* player.rs:209-224
UserShoot ==
    /\ calls' = calls + 1
    /\ path' = path
    /\ UserCalls
    /\ \E state \in BOOLEAN :
          IF TickCallRefused
          THEN /\ ret' = Ret("shoot", "Player not in game or disconnected")
               /\ NoSend
               /\ UNCHANGED <<pc, lock>>
          ELSE UserSend("shoot", tick_message(tick, <<>>, shoot_state(state)), "shoot_w")
    /\ UNCHANGED <<messages, readerVars, playerVars, pending, logVars>>

\* player.rs:204-206 and 224-226: the frame of walk or shoot is written
UserTickDone ==
    /\ calls' = calls
    /\ path' = path
    /\ pc["user"] \in {"walk_w", "shoot_w"}
    /\ SocketSendDone("user")
    /\ tick' = NextTick(tick)
    /\ ret' = Ret(IF pc["user"] = "walk_w" THEN "walk" ELSE "shoot", "Ok")
    /\ pc' = [pc EXCEPT !["user"] = "idle"]
    /\ lock' = Release("user")
    /\ UNCHANGED <<messages, readerVars, account, map, id, disconnected, ready, in_game,
                   walking, position, rotation, state_buffer, pending, logVars>>

\* What the Map answers to walk_to: whether both positions have a closest
\* walkable cell, whether A* finds a path, and the cells after the first.
WalkToPlans ==
    {[walkable |-> FALSE, found |-> FALSE, cells |-> 0],
     [walkable |-> TRUE, found |-> FALSE, cells |-> 0]}
    \cup {[walkable |-> TRUE, found |-> TRUE, cells |-> n] : n \in 0..MaxPath}

\* a walk_to that does not look for the Map
WalkToCheckNoMap(plan) ==
    CASE TickCallRefused -> "Player not in game or disconnected"
      [] ~plan.walkable -> "Position not walkable"
      [] ~plan.found -> "No path found"
      [] OTHER -> "none"
\* player.rs:121-131 and 180-188, the error walk_to returns before it sends
WalkToCheck(plan) ==
    CASE TickCallRefused -> "Player not in game or disconnected"
      [] ~map -> "Map information not available"
      [] ~plan.walkable -> "Position not walkable"
      [] ~plan.found -> "No path found"
      [] OTHER -> "none"

\* player.rs:120-135, walk_to up to the write of walk(true)
UserWalkTo ==
    /\ calls' = calls + 1
    /\ UserCalls
    /\ \E plan \in WalkToPlans :
          IF WalkToCheck(plan) # "none"
          THEN /\ ret' = Ret("walk_to", WalkToCheck(plan))
               /\ NoSend
               /\ UNCHANGED <<pc, lock, walking, path>>
          ELSE /\ walking' = TRUE
               /\ UserSend("walk_to", tick_message(tick, <<>>, walk_state(TRUE)), "wt_start_w")
               /\ path' = IF pc'["user"] = "wt_start_w" THEN plan.cells ELSE 0
    /\ UNCHANGED <<messages, readerVars, account, map, id, disconnected, ready, in_game, tick,
                   position, rotation, state_buffer, pending, logVars>>

\* player.rs:204-206 and 137, the frame of walk(true) is written
WalkToStarted ==
    /\ pc["user"] = "wt_start_w"
    /\ SocketSendDone("user")
    /\ tick' = NextTick(tick)
    /\ pc' = [pc EXCEPT !["user"] = "wt_loop"]
    /\ UNCHANGED <<messages, readerVars, account, map, id, disconnected, ready, in_game,
                   walking, position, rotation, state_buffer, lock, pending, ret, calls, path,
                   logVars>>

\* walk_to returns val and drops the guard
WalkToReturn(val) ==
    /\ ret' = Ret("walk_to", val)
    /\ pc' = [pc EXCEPT !["user"] = "idle"]
    /\ lock' = Release("user")
    /\ NoSend

\* player.rs:138-154 and 176-177: with a cell left and not disconnected, the
\* top of the inner loop (a manual tick() while in game, whose regular tick
\* frame is sent at 289-296, else the error); with no cell left, walk(false).
WalkToLoop ==
    /\ pc["user"] = "wt_loop"
    /\ IF path = 0 \/ disconnected
       THEN IF TickCallRefused
            THEN /\ WalkToReturn("Player not in game or disconnected")
                 /\ walking' = walking
            ELSE /\ walking' = FALSE
                 /\ UserSend("walk_to", tick_message(tick, <<>>, walk_state(FALSE)), "wt_stop_w")
       ELSE IF in_game
            THEN /\ walking' = walking
                 /\ UserSend("walk_to", tick_message(tick, <<rotation>>, Nil), "tick_w")
            ELSE /\ WalkToReturn("Game ended or Player died")
                 /\ walking' = walking
    /\ path' = IF pc'["user"] = "tick_w" THEN path ELSE 0
    /\ UNCHANGED <<messages, readerVars, account, map, id, disconnected, ready, in_game, tick,
                   position, rotation, state_buffer, pending, calls, logVars>>

\* player.rs:158-174: the interval of walk_to elapses; the cell is reached
\* (the next one is due) or not
WalkToWaited ==
    /\ pc["user"] = "wt_wait"
    /\ \E arrived \in BOOLEAN : path' = IF arrived THEN path - 1 ELSE path
    /\ pc' = [pc EXCEPT !["user"] = "wt_loop"]
    /\ UNCHANGED <<sockVars, playerVars, lock, pending, out, ret, calls, logVars>>

\* player.rs:204-206 and 177-179, the frame of walk(false) is written
WalkToStopped ==
    /\ pc["user"] = "wt_stop_w"
    /\ SocketSendDone("user")
    /\ tick' = NextTick(tick)
    /\ ret' = Ret("walk_to", "Ok")
    /\ pc' = [pc EXCEPT !["user"] = "idle"]
    /\ lock' = Release("user")
    /\ UNCHANGED <<messages, readerVars, account, map, id, disconnected, ready, in_game,
                   walking, position, rotation, state_buffer, pending, calls, path, logVars>>

\* player.rs:248-258 and socket.rs:110-112
UserDisconnect ==
    /\ calls' = calls + 1
    /\ path' = path
    /\ UserCalls
    /\ ready' = FALSE
    /\ in_game' = FALSE
    /\ disconnected' = TRUE
    /\ IF ~disconnected
       THEN \E r \in CloseOutcomes :
               /\ SocketClose("user", r)
               /\ pc' = [pc EXCEPT !["user"] = IF r = "pending" THEN "close_w" ELSE "idle"]
               /\ lock' = IF r = "pending" THEN "user" ELSE lock
               /\ ret' = CASE r = "pending" -> ret
                           [] r = "ok" -> Ret("disconnect", "Ok")
                           [] OTHER -> Ret("disconnect", "WebSocket error")
       ELSE /\ ret' = Ret("disconnect", "Ok")
            /\ UNCHANGED <<fixedVars, ws_write, num, wire, encodes, out, pc, lock>>
    /\ UNCHANGED <<messages, readerVars, account, map, id, walking, tick, position, rotation,
                   state_buffer, pending, logVars>>

\* socket.rs:113-115 and player.rs:254-257: the close frame is written
UserDisconnectDone ==
    /\ calls' = calls
    /\ path' = path
    /\ pc["user"] = "close_w"
    /\ SocketCloseDone("user")
    /\ pc' = [pc EXCEPT !["user"] = "idle"]
    /\ lock' = Release("user")
    /\ ret' = Ret("disconnect", "Ok")
    /\ UNCHANGED <<messages, readerVars, playerVars, pending, logVars>>

(* ------------------------------------------------------------ the peer *)
\* the Player's id in this game, "1", and another player's id, "2"
OwnId == <<49>>
OtherId == <<50>>
Framed(value) == BinaryFrame(Pack(value) \o <<0, 0>>)

\* frames the server sends
F_pi == Framed(Arr(<<Str(S_pi)>>))
F_load == Framed(Arr(<<Str(S_load)>>))
F_io_init == Framed(Arr(<<Str(S_io_init), Str(OwnId)>>))
F_init == Framed(Arr(<<Str(S_init)>>))
F_ready == Framed(Arr(<<Str(S_ready)>>))
F_spawn == Framed(Arr(<<Str(S_0), Arr(<<Str(OwnId), Num(0), Num(1), Num(2), Num(3)>>)>>))
F_spawn_other ==
    Framed(Arr(<<Str(S_0), Arr(<<Str(OtherId), Num(0), Num(4), Num(5), Num(6)>>)>>))
F_spawn_both ==
    Framed(Arr(<<Str(S_0), Arr(<<Str(OtherId), Num(0), Num(4), Num(5), Num(6),
                                 Str(OwnId), Num(0), Num(7), Num(8), Num(9)>>)>>))
F_dead == Framed(Arr(<<Str(S_l), Num(0)>>))
F_alive == Framed(Arr(<<Str(S_l), Arr(<<Num(1), Num(0), Num(1), Num(2), Num(3)>>)>>))
F_alive_far == Framed(Arr(<<Str(S_l), Arr(<<Num(0), Num(0), Num(5), Num(2), Num(3)>>)>>))
F_end == Framed(Arr(<<Str(S_end)>>))
F_unknown == Framed(Arr(<<Str(<<120>>)>>))
F_close == OtherFrame("close")

\* The sessions the server plays: the handshake; a spawn, a death and the
\* respawn; a spawn, an update, the end of the game and the next game; pings
\* and a close by the peer; a handshake whose "init" follows "ready"; a
\* spawn repeated while in game.
Sessions ==
    { <<F_load, F_io_init, F_init, F_ready, F_spawn>>,
      <<F_io_init, F_spawn, F_dead, F_spawn, F_end>>,
      <<F_io_init, F_spawn, F_alive, F_end, F_spawn>>,
      <<F_pi, F_unknown, F_io_init, F_spawn_other, F_close>>,
      <<F_ready, F_init, F_spawn, F_close>>,
      <<F_io_init, F_spawn, F_spawn_both, F_close>>,
      <<F_io_init, F_init, F_spawn, F_end>>,
      <<F_io_init, F_spawn, F_ready, F_end>>,
      <<F_io_init, F_spawn, F_end, F_alive_far>> }

\* the reader task takes the next frame of the session from the stream
ReaderRecv ==
    /\ stream # <<>>
    /\ ReaderStep(Head(stream))
    /\ stream' = Tail(stream)
    /\ UNCHANGED <<fixedVars, ws_write, num, wire, encodes, playerVars, taskVars, logVars>>

(* -------------------------------------------------------------- Spec *)
NoAccount == <<>>
SomeAccount == <<[username |-> <<117>>, password |-> <<112>>]>>

Init == InitWith({11}, {NoAccount, SomeAccount}, Sessions)

Next ==
    \/ ReaderRecv
    \/ TickerWake
    \/ \E t \in Tasks : TickWritten(t)
    \/ \E t \in Tasks : TickEnd(t)
    \/ \E t \in Tasks : SkipEntry(t)
    \/ \E t \in Tasks : OnPi(t)
    \/ \E t \in Tasks : OnLoad(t)
    \/ \E t \in Tasks : RespWritten(t)
    \/ \E t \in Tasks : OnIoInit(t)
    \/ \E t \in Tasks : OnInit(t)
    \/ \E t \in Tasks : OnReady(t)
    \/ \E t \in Tasks : OnSpawn(t)
    \/ \E t \in Tasks : SpawnWritten(t)
    \/ \E t \in Tasks : OnPlayerUpdate(t)
    \/ \E t \in Tasks : SleepEnd(t)
    \/ \E t \in Tasks : OnEnd(t)
    \/ \E t \in Tasks : OnOther(t)
    \/ UserEnter
    \/ UserEnterDone
    \/ UserWalk
    \/ UserShoot
    \/ UserTickDone
    \/ UserWalkTo
    \/ WalkToStarted
    \/ WalkToLoop
    \/ WalkToWaited
    \/ WalkToStopped
    \/ UserDisconnect
    \/ UserDisconnectDone

Spec == Init /\ [][Next]_vars

(* ------------------------------------------------ claims on the Player *)
\* the "q" frames on the wire, in wire order
QFrames == SelectSeq(wire, IsQ)
\* a task is suspended inside an operation: in a write, in the 3 s sleep, or
\* in the interval wait of walk_to
WritingPcs == {"tick_w", "resp_w", "spawn_w", "enter_w", "walk_w", "shoot_w", "close_w",
               "wt_start_w", "wt_stop_w"}
SuspendedPcs == WritingPcs \cup {"sleep", "wt_wait"}

\* C1, as stated: over a whole session the tick numbers of the emitted "q"
\* frames are strictly increasing, starting at 0 with the init_tick.
C1_TickNumbersStrictlyIncreasing ==
    /\ QFrames # <<>> => (IsInitTick(QFrames[1]) /\ QTick(QFrames[1]) = 0)
    /\ \A i \in 1..(Len(QFrames) - 1) : QTick(QFrames[i]) < QTick(QFrames[i + 1])
\* C1, amended: the first "q" frame carries 0, every init_tick carries 0, and
\* from one "q" frame to the next the tick number strictly increases unless
\* the later frame is an init_tick, which restarts the numbering.
C1_TickNumbersRestartAtSpawn ==
    /\ QFrames # <<>> => QTick(QFrames[1]) = 0
    /\ \A i \in 1..Len(QFrames) : IsInitTick(QFrames[i]) => QTick(QFrames[i]) = 0
    /\ \A i \in 1..(Len(QFrames) - 1) :
          IsInitTick(QFrames[i + 1]) \/ QTick(QFrames[i]) < QTick(QFrames[i + 1])
\* an init_tick, then a later tick frame, then the init_tick of another spawn
C1_Witness ==
    \E i, j, k \in 1..Len(QFrames) :
        /\ i < j /\ j < k
        /\ IsInitTick(QFrames[i])
        /\ ~IsInitTick(QFrames[j]) /\ QTick(QFrames[j]) > 0
        /\ IsInitTick(QFrames[k])

\* C2: when tick() takes a Close entry from the drained messages, it sets
\* disconnected and clears in_game (so that the ticker exits at its next wake).
C2_CloseDisconnects ==
    [][\A t \in Tasks :
          (/\ pc[t] = "dispatch"
           /\ pending[t] # <<>>
           /\ Head(pending[t]).kind = "Close"
           /\ pending'[t] = Tail(pending[t]))
          => (disconnected' /\ ~in_game')]_vars

\* C3: a task that is suspended inside a Player operation (a pending write,
\* the 3 s sleep of the death handler) does not hold the Player lock.
C3_SuspensionReleasesLock ==
    \A t \in Tasks : pc[t] \in SuspendedPcs => lock # t

\* C4: once disconnect has returned, disconnected is set, in_game and ready
\* are cleared and the writer is closed.
C4_DisconnectClosesWriter ==
    (ret.op = "disconnect" /\ pc["user"] = "idle")
        => (disconnected /\ ~in_game /\ ~ready /\ ~ws_write)

\* C5: once disconnected is set, the ticker's next wake ends the task without
\* sending a frame or draining the queue, and a ticker that has ended stays
\* ended: it writes nothing and the inbound queue is never drained again.
C5_TickerStopsAfterDisconnect ==
    [][/\ (disconnected /\ pc["ticker"] = "interval" /\ pc'["ticker"] # "interval")
             => /\ pc'["ticker"] = "done"
                /\ wire' = wire
                /\ encodes' = encodes
                /\ messages' = messages
                /\ pending' = pending
       /\ pc["ticker"] = "done"
             => /\ pc'["ticker"] = "done"
                /\ out'["ticker"] = 0
                /\ pending'["ticker"] = pending["ticker"]
                /\ Len(messages') >= Len(messages)]_vars
\* the ticker has ended after a disconnect and left a received message queued
C5_Witness ==
    /\ disconnected
    /\ pc["ticker"] = "done"
    /\ messages # <<>>
    /\ wire # <<>>

\* C6: at most one task has a write to the WebSocket pending, and the frame
\* being written is the last one on the wire: no frame is put on the wire
\* until the pending send completes, so frames lie in completion order.
C6_WritesExclusiveInOrder ==
    /\ Cardinality({t \in Tasks : out[t] # 0}) <= 1
    /\ \A t \in Tasks : out[t] # 0 <=> pc[t] \in WritingPcs
    /\ \A t \in Tasks : out[t] # 0 => out[t] = Len(wire)
\* a write of the user is pending behind a tick frame the ticker has written
C6_Witness ==
    /\ out["user"] # 0
    /\ pc["ticker"] = "interval"
    /\ \E i \in 1..(Len(wire) - 1) :
          IsQ(wire[i]) /\ ~IsInitTick(wire[i]) /\ wire[i].msg.v[6].t = "arr"

\* C11: a call made in a state that disallows it returns the error and has
\* no effect: enter while in game or disconnected, walk and shoot while not in
\* game or disconnected, put no frame on the wire, encode nothing and leave
\* the Socket and every field of the Player unchanged.
C11_RefusedCallHasNoEffect ==
    [][/\ (UserEnter /\ (in_game \/ disconnected))
             => /\ ret' = Ret("enter", "Player already in game or disconnected")
                /\ UNCHANGED <<sockVars, playerVars, lock, pc, pending, out>>
       /\ (UserWalk /\ (~in_game \/ disconnected))
             => /\ ret' = Ret("walk", "Player not in game or disconnected")
                /\ UNCHANGED <<sockVars, playerVars, lock, pc, pending, out>>
       /\ (UserShoot /\ (~in_game \/ disconnected))
             => /\ ret' = Ret("shoot", "Player not in game or disconnected")
                /\ UNCHANGED <<sockVars, playerVars, lock, pc, pending, out>>]_vars
\* enter was refused while in game, after frames had been written
C11_Witness ==
    /\ ret = Ret("enter", "Player already in game or disconnected")
    /\ in_game
    /\ ~disconnected
    /\ wire # <<>>

\* the errors walk_to returns before it has sent anything
WalkToErrors ==
    {"Player not in game or disconnected", "Map information not available",
     "Position not walkable", "No path found"}

\* C12: walk_to called while not in game or disconnected, or with no Map
\* bound, returns the matching error; and whenever the call returns one of its
\* four early errors (these two, no walkable cell, no path) it has put no
\* frame on the wire, encoded nothing and changed no field of the Player.
C12_WalkToFailsWithoutEffect ==
    [][UserWalkTo =>
          /\ TickCallRefused => ret' = Ret("walk_to", "Player not in game or disconnected")
          /\ (~TickCallRefused /\ ~map) => ret' = Ret("walk_to", "Map information not available")
          /\ (pc'["user"] = "idle" /\ ret'.val \in WalkToErrors)
                => UNCHANGED <<sockVars, playerVars, lock, pc, pending, out, path>>]_vars
\* walk_to has returned "No path found" to a Player in game with a Map bound
C12_Witness ==
    /\ ret = Ret("walk_to", "No path found")
    /\ in_game /\ map /\ ~disconnected
    /\ pc["user"] = "idle"

\* C13: when walk_to, having waited for its interval, goes on with in_game
\* false, it returns "Game ended or Player died" and sends no further frame.
C13_WalkToEndsWithGameEnded ==
    [][(WalkToLoop /\ ~in_game)
          => /\ ret' = Ret("walk_to", "Game ended or Player died")
             /\ wire' = wire
             /\ encodes' = encodes]_vars

\* a frame on the wire is the pong
IsPong(f) == f.op = "binary" /\ f.msg = pong
\* a received "pi" is queued or drained and not yet handled
PiWaiting ==
    \/ \E i \in 1..Len(messages) : messages[i].kind = "Message" /\ messages[i].type = S_pi
    \/ \E t \in Tasks : \E i \in 1..Len(pending[t]) :
           pending[t][i].kind = "Message" /\ pending[t][i].type = S_pi

\* C14, as stated: while a received "pi" has not been answered, the next
\* frame put on the wire is the pong.
C14_PongIsNextFrame ==
    [][(PiWaiting /\ Len(wire') > Len(wire))
          => (wire' = Append(wire, wire'[Len(wire')]) /\ IsPong(wire'[Len(wire')]))]_vars
\* C14, amended: the step in which tick() handles a "pi" puts the pong on the
\* wire and waits for its write, or (the send failed) puts nothing on the wire
\* and goes on dispatching; it changes no field of the Player.
C14_PiHandlerSendsPong ==
    [][\A t \in Tasks :
          (Handling(t, S_pi) /\ pending'[t] = Tail(pending[t]))
             => /\ \/ pc'[t] = "resp_w" /\ wire' = Append(wire, wire'[Len(wire')])
                         /\ IsPong(wire'[Len(wire')]) /\ out'[t] = Len(wire')
                   \/ pc'[t] = "dispatch" /\ wire' = wire /\ out' = out
                /\ UNCHANGED playerVars]_vars
\* the pong is being written behind another frame
C14_Witness ==
    \E t \in Tasks :
        /\ pc[t] = "resp_w"
        /\ Len(wire) >= 2
        /\ out[t] = Len(wire)
        /\ IsPong(wire[Len(wire)])

\* tick() of task t handles a "ready" and no account is configured
HandlesReady(t) ==
    /\ Handling(t, S_ready)
    /\ pending'[t] = Tail(pending[t])
    /\ account = <<>>
\* this step puts exactly the enter frame on the wire
EnterAppended ==
    /\ Len(wire') = Len(wire) + 1
    /\ wire' = Append(wire, wire'[Len(wire')])
    /\ wire'[Len(wire')].op = "binary"
    /\ wire'[Len(wire')].msg = enter

\* C15, as stated: handling "ready" with no account sets ready and sends the
\* enter frame (the send itself may fail).
C15_ReadyAlwaysEnters ==
    [][\A t \in Tasks :
          HandlesReady(t)
             => /\ ready'
                /\ encodes' = encodes + 1
                /\ EnterAppended \/ wire' = wire]_vars
\* C15, amended: handling "ready" with no account sets ready and changes no
\* other field; it sends the enter frame, with the literal payload of
\* MessageBuilder::enter, unless the Player is in game or disconnected, and
\* then it sends and encodes nothing.
C15_ReadyEntersUnlessInGame ==
    [][\A t \in Tasks :
          HandlesReady(t)
             => /\ ready'
                /\ UNCHANGED <<account, map, id, disconnected, in_game, walking, tick,
                               position, rotation, state_buffer>>
                /\ IF in_game \/ disconnected
                   THEN wire' = wire /\ encodes' = encodes /\ pc'[t] = "dispatch"
                   ELSE /\ encodes' = encodes + 1
                        /\ \/ pc'[t] = "resp_w" /\ EnterAppended /\ out'[t] = Len(wire')
                           \/ pc'[t] = "dispatch" /\ wire' = wire]_vars
\* the enter frame of a "ready" is being written
C15_Witness ==
    \E t \in Tasks :
        /\ ready /\ account = <<>> /\ ~in_game
        /\ pc[t] = "resp_w"
        /\ out[t] = Len(wire)
        /\ wire[Len(wire)].msg = enter

\* tick() of task t handles a well-formed spawn and the Player has its id
HandlesSpawn(t) ==
    /\ Handling(t, S_0)
    /\ pending'[t] = Tail(pending[t])
    /\ id # <<>>
    /\ Args(t) # <<>>
    /\ Args(t)[1].t = "arr"
\* where the payload of the spawn names the Player
OwnAt(t) == {i \in 1..Len(Args(t)[1].v) : Args(t)[1].v[i] = Str(id[1])}

\* C16: a spawn whose payload names the Player sets in_game, clears walking,
\* sets the position to the three numbers 2, 3 and 4 elements after the id and
\* sends the init_tick (the send may fail); when that write completes tick is
\* 1.  A spawn that does not name the Player sends nothing and changes no
\* field.
C16_SpawnStartsGame ==
    [][\A t \in Tasks :
          /\ (HandlesSpawn(t) /\ OwnAt(t) # {})
                => \E i \in OwnAt(t) :
                      /\ \A j \in OwnAt(t) : i <= j
                      /\ in_game' /\ ~walking'
                      /\ position' = [x |-> Args(t)[1].v[i + 2].v[1] * 10000,
                                       y |-> Args(t)[1].v[i + 3].v[1] * 10000,
                                       z |-> Args(t)[1].v[i + 4].v[1] * 10000]
                      /\ encodes' = encodes + 1
                      /\ \/ wire' = wire /\ pc'[t] = "dispatch"
                         \/ /\ pc'[t] = "spawn_w"
                            /\ Len(wire') = Len(wire) + 1
                            /\ wire' = Append(wire, wire'[Len(wire')])
                            /\ wire'[Len(wire')].msg = init_tick
          /\ (HandlesSpawn(t) /\ OwnAt(t) = {})
                => UNCHANGED <<sockVars, playerVars, lock, pc, out>>
          /\ (pc[t] = "spawn_w" /\ pc'[t] # "spawn_w") => tick' = 1]_vars
\* a spawn that names the Player after another player has been handled and
\* its init_tick written
C16_Witness ==
    /\ in_game /\ ~walking /\ tick = 1
    /\ position = [x |-> 70000, y |-> 80000, z |-> 90000]
    /\ wire # <<>>
    /\ wire[Len(wire)].msg = init_tick
    /\ \A t \in Tasks : out[t] = 0

\* C17: handling a dead "l" update clears in_game and starts the 3 s sleep
\* without sending; while the handler sleeps no frame at all, so no regular
\* tick frame, is put on the wire; and the step that ends the sleep sends the
\* enter frame (the send may fail), so the enter frame is the next frame on
\* the wire after the death.
C17_DeathSleepsThenEnters ==
    [][\A t \in Tasks :
          /\ (/\ Handling(t, S_l)
              /\ pending'[t] = Tail(pending[t])
              /\ Args(t) # <<>>
              /\ Args(t)[1] = Num(0))
                => (~in_game' /\ pc'[t] = "sleep" /\ wire' = wire /\ encodes' = encodes)
          /\ pc[t] = "sleep"
                => /\ ~in_game /\ lock = t
                   /\ \/ pc'[t] = "sleep" /\ wire' = wire /\ encodes' = encodes
                      \/ pc'[t] = "dispatch" /\ wire' = wire /\ encodes' = encodes + 1
                      \/ pc'[t] = "resp_w" /\ encodes' = encodes + 1 /\ EnterAppended]_vars
\* the enter frame of a death is being written behind the frames of the game
C17_Witness ==
    \E t \in Tasks :
        /\ pc[t] = "resp_w"
        /\ ~ready /\ ~in_game /\ id # <<>>
        /\ Len(wire) >= 2
        /\ out[t] = Len(wire)
        /\ wire[Len(wire)].msg = enter
        /\ \E i \in 1..(Len(wire) - 1) : IsInitTick(wire[i])

\* this step puts a "q" frame on the wire
QAppended == Len(wire') > Len(wire) /\ IsQ(wire'[Len(wire')])

\* C18, as stated: while in_game is false and stays false, no "q" frame is
\* put on the wire and tick, position and state_buffer do not change.
C18_FrozenWhileNotInGame ==
    [][(~in_game /\ ~in_game')
          => (~QAppended /\ UNCHANGED <<tick, position, state_buffer>>)]_vars
\* C18, amended: while in_game is false and stays false, no "q" frame is put
\* on the wire and the tick counter does not change; position and
\* state_buffer change only in the step that handles an "l" update; and a
\* wake of the ticker while not in game sends nothing and changes no field.
C18_NoTickFrameWhileNotInGame ==
    [][/\ (~in_game /\ ~in_game')
             => /\ ~QAppended
                /\ tick' = tick
                /\ \/ UNCHANGED <<position, state_buffer>>
                   \/ \E t \in Tasks : Handling(t, S_l) /\ pending'[t] = Tail(pending[t])
       /\ (~in_game /\ pc["ticker"] = "interval" /\ pc'["ticker"] # "interval")
             => UNCHANGED <<wire, encodes, playerVars>>]_vars
\* after the game has ended an "l" update has moved the Player
C18_Witness ==
    /\ ~in_game
    /\ state_buffer # <<>>
    /\ position = [x |-> 50000, y |-> 20000, z |-> 30000]
    /\ \E t \in Tasks : pc[t] = "dispatch"

(* ------------------------------- reconciliation alone (SpecReconcile) *)
\* the snapshots tick() pushes at player.rs:305-310: at (5, 0, 0), not walking
\* or walking in one of two directions
SnapshotsAt(tk, from) ==
    {State(tk, from, 0, FALSE)}
    \cup {State(tk, Advance(from, rot), rot, TRUE) : rot \in {0, PiMicro \div 2}}
Buffers ==
    {<<>>}
    \cup {<<a>> : a \in SnapshotsAt(10, Vec3(50000, 0, 0))}
    \cup UNION {{<<a, b>> : b \in SnapshotsAt(11, a.position)} :
                   a \in SnapshotsAt(10, Vec3(50000, 0, 0))}
\* the "l" updates of the server: alive, with a tick and a position around
\* (5, 0, 0) and the threshold; dead; malformed
Updates ==
    {<<Arr(<<Num(ts), Num(0), F32(x), F32(y), F32(z)>>)>> :
        ts \in {10, 11, 12}, x \in {44000, 45000, 50000, 54000, 55000, 56000},
        y \in {0, 30000}, z \in {0, 5000, 6000}}
    \cup {<<Num(0)>>, <<Arr(<<Num(10)>>)>>}

\* a Player in game whose tick() has drained one "l" update
InitReconcile ==
    /\ prime = 11
    /\ NoMapLoaded
    /\ stream = <<>>
    /\ ws_write = TRUE
    /\ num = 0
    /\ messages = <<>>
    /\ readerPc = "reading"
    /\ nRead = 0
    /\ wire = <<>>
    /\ encodes = 0
    /\ account = NoAccount
    /\ id = <<OwnId>>
    /\ disconnected = FALSE
    /\ ready = FALSE
    /\ in_game = TRUE
    /\ walking = FALSE
    /\ tick = 12
    /\ state_buffer \in Buffers
    /\ position = IF state_buffer = <<>> THEN Vec3(50000, 0, 0)
                  ELSE state_buffer[Len(state_buffer)].position
    /\ rotation = 0
    /\ map = FALSE
    /\ lock = "ticker"
    /\ pc = [t \in Tasks |-> IF t = "ticker" THEN "dispatch" ELSE "idle"]
    /\ \E u \in Updates :
          pending = [t \in Tasks |-> IF t = "ticker"
                                     THEN <<[kind |-> "Message", type |-> S_l, args |-> u]>>
                                     ELSE <<>>]
    /\ out = [t \in Tasks |-> 0]
    /\ ret = NoRet
    /\ calls = 0
    /\ path = 0
    /\ recvLog = <<>>
    /\ drained = <<>>
    /\ encLog = <<>>

NextReconcile == \E t \in Tasks : OnPlayerUpdate(t)
SpecReconcile == InitReconcile /\ [][NextReconcile]_vars

\* C19: handling an alive "l" with tick ts and position ps keeps exactly the
\* snapshots with tick >= ts.  If none is kept, or the first kept snapshot is
\* within 0.5 of ps in x and in z, the position and the kept snapshots are
\* unchanged.  Otherwise the position is set to ps and every kept snapshot
\* that was walking moves it on: it is ps when no kept snapshot was walking,
\* and the snapshots record the replayed positions.
C19_ReconcileThreshold ==
    [][\A t \in Tasks :
          (/\ Handling(t, S_l)
           /\ pending'[t] = Tail(pending[t])
           /\ Args(t) # <<>>
           /\ Args(t)[1].t = "arr"
           /\ Len(Args(t)[1].v) >= 5)
          => LET a == Args(t)[1].v
                 ps == Vec3(CoordOf(a[3]), CoordOf(a[4]), CoordOf(a[5]))
                 kept == SelectSeq(state_buffer, LAMBDA s : s.tick >= a[1].v[1])
                 n == Len(kept)
             IN  /\ Len(state_buffer') = n
                 /\ \A i \in 1..n :
                       [state_buffer'[i] EXCEPT !.position = kept[i].position] = kept[i]
                 /\ n = 0 => position' = position
                 /\ n > 0 =>
                       IF /\ Abs(kept[1].position.x - ps.x) <= 5000
                          /\ Abs(kept[1].position.z - ps.z) <= 5000
                       THEN position' = position /\ state_buffer' = kept
                       ELSE /\ position' = state_buffer'[n].position
                            /\ state_buffer'[1].position =
                                  IF kept[1].walking THEN Advance(ps, kept[1].rotation) ELSE ps
                            /\ (\A i \in 1..n : ~kept[i].walking)
                                  => (position' = ps
                                      /\ \A i \in 1..n : state_buffer'[i].position = ps)]_vars
\* the snapshot (5, 0, 0) of tick 10 and the update (5.6, 0, 0): snapped
C19_Witness ==
    /\ pending["ticker"] = <<>>
    /\ state_buffer = <<State(10, Vec3(56000, 0, 0), 0, FALSE)>>
    /\ position = Vec3(56000, 0, 0)

\* C20: state_buffer is bounded whatever the number of ticks: its length
\* stays below the number of regular tick frames a session of the model can
\* send after its spawn (all but one of the MaxEncodes sends).
C20_StateBufferBounded == Len(state_buffer) < MaxEncodes - 1

(* ------------------------------------ the rotation alone (SpecRotation) *)
\* calls of rotation, rotate and look_at in one run
MaxTurns == 3
\* 2.0 * PI in microradians
TwoPi == 2 * PiMicro
\* player.rs:229-236, the value Player::rotation stores for the argument r
Wrap(r) ==
    IF r > TwoPi THEN r - TwoPi
    ELSE IF r < 0 THEN r + TwoPi
    ELSE r
\* the angles a caller passes to rotation and rotate
TurnAngles ==
    {-3 * PiMicro, -PiMicro, -(PiMicro \div 2), 0, PiMicro \div 2, PiMicro,
     TwoPi, 3 * PiMicro, 5 * PiMicro}
\* f32::atan2(dz, dx) in microradians, for the eight directions and dz = dx = 0
Atan2(dz, dx) ==
    CASE dz = 0 /\ dx >= 0 -> 0
      [] dz > 0 /\ dx > 0 -> PiMicro \div 4
      [] dz > 0 /\ dx = 0 -> PiMicro \div 2
      [] dz > 0 /\ dx < 0 -> 3 * (PiMicro \div 4)
      [] dz = 0 /\ dx < 0 -> PiMicro
      [] dz < 0 /\ dx < 0 -> -3 * (PiMicro \div 4)
      [] dz < 0 /\ dx = 0 -> -(PiMicro \div 2)
      [] OTHER -> -(PiMicro \div 4)
\* the positions a caller passes to look_at: around the Player, or its own
LookTargets == {Vec3(x, 0, z) : x \in {-10000, 0, 10000}, z \in {-10000, 0, 10000}}

\* player.rs:229-236
UserRotation ==
    /\ calls < MaxTurns
    /\ calls' = calls + 1
    /\ \E r \in TurnAngles : rotation' = Wrap(r)
    /\ UNCHANGED <<sockVars, account, map, id, disconnected, ready, in_game, walking, tick,
                   position, state_buffer, lock, pc, pending, out, ret, path, logVars>>
\* player.rs:238-240
UserRotate ==
    /\ calls < MaxTurns
    /\ calls' = calls + 1
    /\ \E r \in TurnAngles : rotation' = Wrap(rotation + r)
    /\ UNCHANGED <<sockVars, account, map, id, disconnected, ready, in_game, walking, tick,
                   position, state_buffer, lock, pc, pending, out, ret, path, logVars>>
\* player.rs:242-246
UserLookAt ==
    /\ calls < MaxTurns
    /\ calls' = calls + 1
    /\ \E p \in LookTargets :
          rotation' = Wrap(Atan2(p.z - position.z, p.x - position.x) + PiMicro \div 2)
    /\ UNCHANGED <<sockVars, account, map, id, disconnected, ready, in_game, walking, tick,
                   position, state_buffer, lock, pc, pending, out, ret, path, logVars>>

InitRotation == InitWith({11}, {NoAccount}, {<<>>})
NextRotation == UserRotation \/ UserRotate \/ UserLookAt
SpecRotation == InitRotation /\ [][NextRotation]_vars

\* C21: after any call of rotation, rotate or look_at the stored rotation lies
\* in [0, 2 pi).
C21_RotationInRange == 0 <= rotation /\ rotation < TwoPi

\* C27: a wake of the ticker of a Player that is not disconnected either
\* leaves the regular tick frame being written (the drain follows its
\* completion) or drains the whole inbound queue, also when the send of the
\* regular tick frame fails.
C27_EveryTickDrains ==
    [][(TickerWake /\ ~disconnected)
          => \/ pc'["ticker"] = "tick_w"
             \/ (pending'["ticker"] = messages /\ messages' = <<>>)]_vars

\* the walking delta of a snapshot, in x and z
WalkDelta(s) ==
    IF s.walking
    THEN [x |-> (WalkDist * SinE4(s.rotation)) \div 10000,
          z |-> -((WalkDist * CosE4(s.rotation)) \div 10000)]
    ELSE [x |-> 0, z |-> 0]
\* from, moved by the walking deltas of the first i snapshots of buf, in order
RECURSIVE MovedBy(_, _, _)
MovedBy(from, buf, i) ==
    IF i = 0 THEN from
    ELSE LET p == MovedBy(from, buf, i - 1)
         IN  [p EXCEPT !.x = @ + WalkDelta(buf[i]).x, !.z = @ + WalkDelta(buf[i]).z]

\* C28: when the first retained snapshot is further than 0.5 from the server
\* position ps in x or z, the position becomes ps moved by the walking delta
\* of every retained walking snapshot, each with its own rotation, in buffer
\* order, and the recorded position of the i-th retained snapshot becomes ps
\* moved by the deltas of the snapshots up to and including it.
C28_ReplayFromServerPosition ==
    [][\A t \in Tasks :
          (/\ Handling(t, S_l)
           /\ pending'[t] = Tail(pending[t])
           /\ Args(t) # <<>>
           /\ Args(t)[1].t = "arr"
           /\ Len(Args(t)[1].v) >= 5)
          => LET a == Args(t)[1].v
                 ps == Vec3(CoordOf(a[3]), CoordOf(a[4]), CoordOf(a[5]))
                 kept == SelectSeq(state_buffer, LAMBDA s : s.tick >= a[1].v[1])
             IN  (/\ kept # <<>>
                  /\ \/ Abs(kept[1].position.x - ps.x) > 5000
                     \/ Abs(kept[1].position.z - ps.z) > 5000)
                 => /\ position' = MovedBy(ps, kept, Len(kept))
                    /\ Len(state_buffer') = Len(kept)
                    /\ \A i \in 1..Len(kept) :
                          state_buffer'[i] =
                             [kept[i] EXCEPT !.position = MovedBy(ps, kept, i)]]_vars
\* two walking snapshots with different rotations have been replayed from the
\* server position (5.6, 3, 0)
C28_Witness ==
    /\ pending["ticker"] = <<>>
    /\ Len(state_buffer) = 2
    /\ state_buffer[1].walking /\ state_buffer[2].walking
    /\ state_buffer[1].rotation # state_buffer[2].rotation
    /\ state_buffer[1].position = Advance(Vec3(56000, 30000, 0), state_buffer[1].rotation)
    /\ position = Advance(state_buffer[1].position, state_buffer[2].rotation)
    /\ position = state_buffer[2].position

(* --------------------------------- the dispatch alone (SpecDispatch) *)
Msg(type, args) == [kind |-> "Message", type |-> type, args |-> args]
\* messages of an unknown type, and malformed messages of the types whose
\* payload process_message parses (player.rs:342-344, 370-378, 383-384)
BadMessages ==
    {Msg(<<120>>, <<>>), Msg(<<120>>, <<Num(1)>>)}
    \cup {Msg(S_io_init, a) : a \in {<<>>, <<Num(1)>>, <<Nil>>}}
    \cup {Msg(S_0, a) : a \in {<<>>, <<Num(5)>>,
                                 <<Arr(<<Str(OwnId), Num(0), Num(1)>>)>>,
                                 <<Arr(<<Str(OwnId), Num(0), Str(<<120>>), Num(2), Num(3)>>)>>}}
    \cup {Msg(S_l, a) : a \in {<<>>, <<Num(1)>>, <<Str(<<120>>)>>, <<Arr(<<Num(10)>>)>>,
                                 <<Arr(<<Str(<<120>>), Num(0), Num(1), Num(2), Num(3)>>)>>,
                                 <<Arr(<<Num(10), Num(0), Nil, Num(2), Num(3)>>)>>}}
\* what one drain hands to the dispatch: a bad message, then another one or
\* a "pi"
DispatchQueues == {<<a, b>> : a \in BadMessages, b \in BadMessages \cup {Msg(S_pi, <<>>)}}

\* a Player, with or without its id, in game or not, whose tick() has just
\* drained the queue (player.rs:313)
InitDispatch ==
    /\ prime = 11
    /\ NoMapLoaded
    /\ stream = <<>>
    /\ ws_write = TRUE
    /\ num = 0
    /\ messages = <<>>
    /\ readerPc = "reading"
    /\ nRead = 0
    /\ wire = <<>>
    /\ encodes = 0
    /\ account = NoAccount
    /\ id \in {<<>>, <<OwnId>>}
    /\ disconnected = FALSE
    /\ ready = FALSE
    /\ in_game \in BOOLEAN
    /\ walking = FALSE
    /\ tick = 1
    /\ state_buffer = <<>>
    /\ position = Vec3(10000, 20000, 30000)
    /\ rotation = 0
    /\ map = FALSE
    /\ lock = "ticker"
    /\ pc = [t \in Tasks |-> IF t = "ticker" THEN "dispatch" ELSE "idle"]
    /\ \E q \in DispatchQueues :
          pending = [t \in Tasks |-> IF t = "ticker" THEN q ELSE <<>>]
    /\ out = [t \in Tasks |-> 0]
    /\ ret = NoRet
    /\ calls = 0
    /\ path = 0
    /\ recvLog = <<>>
    /\ drained = <<>>
    /\ encLog = <<>>

NextDispatch ==
    \E t \in Tasks :
        \/ OnIoInit(t)
        \/ OnSpawn(t)
        \/ OnPlayerUpdate(t)
        \/ OnOther(t)
        \/ OnPi(t)
        \/ RespWritten(t)
        \/ TickEnd(t)
SpecDispatch == InitDispatch /\ [][NextDispatch]_vars

\* C29: the step that dispatches a message of an unknown type, or a malformed
\* "io-init", "0" or "l", sends and encodes nothing and changes no field of the
\* Player; tick() goes on with the rest of the drain, and the ticker neither
\* ends nor panics.
C29_BadMessageIsSkipped ==
    [][\A t \in Tasks :
          (/\ pc[t] = "dispatch"
           /\ pending[t] # <<>>
           /\ Head(pending[t]) \in BadMessages
           /\ pending'[t] # pending[t])
          => /\ UNCHANGED <<sockVars, playerVars, lock, out>>
             /\ pending'[t] = Tail(pending[t])
             /\ pc'[t] = "dispatch"]_vars
\* after a bad message the "pi" of the same drain has been answered and the
\* ticker waits for its next interval
C29_Witness ==
    /\ pc["ticker"] = "interval"
    /\ lock = "none"
    /\ pending["ticker"] = <<>>
    /\ Len(wire) = 1
    /\ wire[1].msg = pong
    /\ position = Vec3(10000, 20000, 30000)

(* ================================================== the Map (map.rs) *)
\* an Array3<u8>: its shape and its cells, indexed from 0
Array3(shape, at) == [shape |-> shape, at |-> at]
Cells(shape) == (0 .. shape[1] - 1) \X (0 .. shape[2] - 1) \X (0 .. shape[3] - 1)
\* an index the array has
InGrid(cell, shape) ==
    /\ 0 <= cell[1] /\ cell[1] < shape[1]
    /\ 0 <= cell[2] /\ cell[2] < shape[2]
    /\ 0 <= cell[3] /\ cell[3] < shape[3]

\* map.rs:56-82, the size table cut into triples; a trailing partial triple
\* is dropped
get_size_groups(sizes) ==
    [k \in 1 .. (Len(sizes) \div 3) |->
        <<sizes[3 * k - 2], sizes[3 * k - 1], sizes[3 * k]>>]

\* map.rs:148-153, what filter_objects starts from
NoObjects ==
    [err |-> "", bounds |-> zero, objects |-> <<>>, ramps |-> <<>>, ladders |-> <<>>]
\* map.rs:157-207, one turn of the loop of filter_objects
FilterObject(raw, acc, object) ==
    IF \/ acc.err # ""
       \/ object.l # <<>>
       \/ (object.i # <<>> /\ object.i[1] \in EXCLUDE_OBJECT_IDS)
       \/ object.si = <<>>
    THEN acc
    ELSE IF object.si[1] >= Len(get_size_groups(raw.sizes))
    THEN [acc EXCEPT !.err = "Raw map object size index out of bounds"]
    ELSE LET size == get_size_groups(raw.sizes)[object.si[1] + 1]
             b == AABB(object.p[1] - size[1] \div 2, object.p[2],
                       object.p[3] - size[3] \div 2, object.p[1] + size[1] \div 2,
                       object.p[2] + size[2], object.p[3] + size[3] \div 2)
             shape == IF object.bo # <<>>
                      THEN [b EXCEPT !.max_y = MAX_MAP_BOUNDS.max_y] ELSE b
             extended == [acc EXCEPT !.bounds = extend_by(@, b)]
         IN  IF object.i = <<9>>
             THEN [extended EXCEPT !.ramps = Append(@,
                      [bounds |-> shape,
                       direction |-> IF object.d = <<>> THEN 0 ELSE object.d[1]])]
             ELSE IF object.i = <<3>>
             THEN [extended EXCEPT !.ladders = Append(@, shape)]
             ELSE [extended EXCEPT !.objects = Append(@, shape)]

RECURSIVE FilterFrom(_, _, _)
FilterFrom(raw, k, acc) ==
    IF k > Len(raw.objects) THEN acc
    ELSE FilterFrom(raw, k + 1, FilterObject(raw, acc, raw.objects[k]))

\* map.rs:148-212
filter_objects(raw) ==
    LET acc == FilterFrom(raw, 1, NoObjects)
    IN  [acc EXCEPT !.bounds = limit_by(@, MAX_MAP_BOUNDS)]

\* map.rs:113-127, the error of the first spawn that has one, or ""
RECURSIVE SpawnError(_, _)
SpawnError(spawns, k) ==
    IF k > Len(spawns) THEN ""
    ELSE IF Len(spawns[k]) < 3 THEN "Raw map spawn contains less than 3 coordinates"
    ELSE IF \E i \in 1 .. 3 : spawns[k][i] = <<>> THEN "Spawn coordinate is null"
    ELSE SpawnError(spawns, k + 1)
\* map.rs:113-127, the spawns as Vec3
ParseSpawns(spawns) ==
    [k \in 1 .. Len(spawns) |->
        [x |-> spawns[k][1][1], y |-> spawns[k][2][1], z |-> spawns[k][3][1]]]

\* map.rs:220-223
chunk_shape(map_bounds) ==
    <<CeilDiv(map_bounds.max_x - map_bounds.min_x, CHUNK_SIZE),
      CeilDiv(map_bounds.max_z - map_bounds.min_z, CHUNK_SIZE)>>
\* map.rs:226-233
chunk_bounds(map_bounds, x, z) ==
    AABB(map_bounds.min_x + x * CHUNK_SIZE, MAX_MAP_BOUNDS.min_y,
         map_bounds.min_z + z * CHUNK_SIZE,
         map_bounds.min_x + x * CHUNK_SIZE + CHUNK_SIZE, MAX_MAP_BOUNDS.max_y,
         map_bounds.min_z + z * CHUNK_SIZE + CHUNK_SIZE)
\* the shapes an area misses no part of
ChunkShapesInside(cb, shapes, ramp) ==
    SelectSeq(shapes, LAMBDA s :
        LET b == IF ramp THEN s.bounds ELSE s
        IN  /\ cb.min_x <= b.min_x /\ b.max_x <= cb.max_x
            /\ cb.min_z <= b.min_z /\ b.max_z <= cb.max_z)
\* map.rs:240-256, the shapes of a list that intersect the chunk, in list order
ChunkShapes(cb, shapes, ramp) ==
    SelectSeq(shapes, LAMBDA s : intersects(cb, IF ramp THEN s.bounds ELSE s))
\* map.rs:214-265, the chunks in the order Array2::iter visits them
generate_object_chunks(map_bounds, objects, ramps, ladders) ==
    LET cs == chunk_shape(map_bounds)
    IN  [k \in 1 .. (cs[1] * cs[2]) |->
            LET cb == chunk_bounds(map_bounds, (k - 1) \div cs[2], (k - 1) % cs[2])
            IN  [bounds |-> cb,
                 objects |-> ChunkShapes(cb, objects, FALSE),
                 ramps |-> ChunkShapes(cb, ramps, TRUE),
                 ladders |-> ChunkShapes(cb, ladders, FALSE)]]

\* map.rs:268-272
grid_shape(map_bounds) ==
    <<CeilDiv(map_bounds.max_x - map_bounds.min_x, CELL_SIZE),
      CeilDiv(map_bounds.max_y - map_bounds.min_y, CELL_SIZE),
      CeilDiv(map_bounds.max_z - map_bounds.min_z, CELL_SIZE)>>
\* map.rs:275-282
cell_bounds(map_bounds, cell) ==
    AABB(map_bounds.min_x + cell[1] * CELL_SIZE, map_bounds.min_y + cell[2] * CELL_SIZE,
         map_bounds.min_z + cell[3] * CELL_SIZE,
         map_bounds.min_x + cell[1] * CELL_SIZE + CELL_SIZE,
         map_bounds.min_y + cell[2] * CELL_SIZE + CELL_SIZE,
         map_bounds.min_z + cell[3] * CELL_SIZE + CELL_SIZE)
\* map.rs:286-311, the code of a cell from the lists of one chunk
ShapeCode(cb, ladders, objects, ramps) ==
    IF \E k \in 1 .. Len(ladders) : intersects(cb, ladders[k]) THEN 6
    ELSE IF \E k \in 1 .. Len(objects) : intersects(cb, objects[k]) THEN 1
    ELSE LET hit == SelectSeq(ramps, LAMBDA r : intersects(cb, r.bounds))
         IN  IF hit # <<>> THEN 2 + hit[1].direction ELSE 0
\* map.rs:284-316, the code from the first chunk that intersects the cell;
\* -1 stands for panic!("Cell not in a chunk")
CellCode(map_bounds, chunks, cell) ==
    LET cb == cell_bounds(map_bounds, cell)
        first == SelectSeq(chunks, LAMBDA ch : intersects(ch.bounds, cb))
    IN  IF first = <<>> THEN -1
        ELSE ShapeCode(cb, first[1].ladders, first[1].objects, first[1].ramps)
\* map.rs:267-319
generate_grid(map_bounds, chunks) ==
    Array3(grid_shape(map_bounds),
           [cell \in Cells(grid_shape(map_bounds)) |-> CellCode(map_bounds, chunks, cell)])

\* map.rs:398-413, the 14 neighbours without edges, in source order
FaceOffsets ==
    << <<0, 1, 0>>, <<-1, 1, 0>>, <<1, 1, 0>>, <<0, 1, -1>>, <<0, 1, 1>>,
       <<-1, 0, 0>>, <<1, 0, 0>>, <<0, 0, -1>>, <<0, 0, 1>>,
       <<0, -1, 0>>, <<-1, -1, 0>>, <<1, -1, 0>>, <<0, -1, -1>>, <<0, -1, 1>> >>
\* map.rs:416-429, the 12 neighbours that edges adds
EdgeOffsets ==
    << <<-1, 1, -1>>, <<-1, 1, 1>>, <<1, 1, -1>>, <<1, 1, 1>>,
       <<-1, 0, -1>>, <<-1, 0, 1>>, <<1, 0, -1>>, <<1, 0, 1>>,
       <<-1, -1, -1>>, <<-1, -1, 1>>, <<1, -1, -1>>, <<1, -1, 1>> >>
\* the cell moved by an offset
Shift(cell, o) == <<cell[1] + o[1], cell[2] + o[2], cell[3] + o[3]>>
\* map.rs:391-446
neighbours(cell, grid_size, edges) ==
    LET offs == IF edges THEN FaceOffsets \o EdgeOffsets ELSE FaceOffsets
    IN  SelectSeq([k \in 1 .. Len(offs) |-> Shift(cell, offs[k])],
                  LAMBDA c : InGrid(c, grid_size))
\* a cell without horizontal neighbours
NoHorizontalNeighbours(cell, grid_size, edges) == <<>>
\* map.rs:448-482, filtered on x and z only
horizontal_neighbours(cell, grid_size, edges) ==
    LET offs == IF edges
                THEN << <<-1, 0, 0>>, <<1, 0, 0>>, <<0, 0, -1>>, <<0, 0, 1>>,
                        <<-1, 0, -1>>, <<-1, 0, 1>>, <<1, 0, -1>>, <<1, 0, 1>> >>
                ELSE << <<-1, 0, 0>>, <<1, 0, 0>>, <<0, 0, -1>>, <<0, 0, 1>> >>
    IN  SelectSeq([k \in 1 .. Len(offs) |-> Shift(cell, offs[k])],
                  LAMBDA c : /\ 0 <= c[1] /\ c[1] < grid_size[1]
                             /\ 0 <= c[3] /\ c[3] < grid_size[3])

\* map.rs:484-547
is_cell_walkable(cell, g) ==
    LET x == cell[1]
        y == cell[2]
        z == cell[3]
        hn == horizontal_neighbours(cell, g.shape, FALSE)
    IN  IF \/ x = 0 \/ x + 1 >= g.shape[1]
           \/ y < 2 \/ y + PLAYER_HEIGHT > g.shape[2]
           \/ z = 0 \/ z + 1 >= g.shape[3]
        THEN FALSE
        ELSE IF \E i \in 0 .. (PLAYER_HEIGHT - 2) : g.at[<<x, y + i, z>>] = 1
        THEN FALSE
        ELSE IF g.at[<<x, y - 1, z>>] = 0
        THEN FALSE
        ELSE IF g.at[cell] = 0
        THEN /\ \A i \in 0 .. 1 :
                  /\ g.at[<<x - 1, y - i, z>>] \notin {3, 5}
                  /\ g.at[<<x + 1, y - i, z>>] \notin {3, 5}
                  /\ g.at[<<x, y - i, z - 1>>] \notin {2, 4}
                  /\ g.at[<<x, y - i, z + 1>>] \notin {2, 4}
             /\ \A k \in 1 .. Len(hn) :
                  /\ ~ /\ g.at[<<hn[k][1], hn[k][2] - 2, hn[k][3]>>] = 0
                       /\ g.at[<<hn[k][1], hn[k][2] - 1, hn[k][3]>>] = 0
                       /\ g.at[hn[k]] = 0
                  /\ g.at[<<hn[k][1], hn[k][2] + 1, hn[k][3]>>] # 1
        ELSE ~ /\ g.at[cell] = 6
               /\ (g.at[<<x - 1, y, z>>] # 6 \/ g.at[<<x + 1, y, z>>] # 6)
               /\ (g.at[<<x, y, z - 1>>] # 6 \/ g.at[<<x, y, z + 1>>] # 6)

\* map.rs:334-340, the cell a spawn seeds, one up if its own cell is occupied;
\* <<>> stands for the panic of indexing the grid outside its shape
SeedOf(g, map_bounds, spawn) ==
    LET cell == position_to_cell(map_bounds, spawn)
    IN  IF ~InGrid(cell, g.shape) THEN <<>>
        ELSE IF g.at[cell] # 0 THEN <<cell[1], cell[2] + 1, cell[3]>>
        ELSE cell
\* map.rs:331-343
Seeds(g, map_bounds, spawns) ==
    [k \in 1 .. Len(spawns) |-> SeedOf(g, map_bounds, spawns[k])]

\* map.rs:363-377, what an air cell pushes for one horizontal neighbour
AirPush(g, n) ==
    IF is_cell_walkable(n, g) THEN <<n>>
    ELSE IF is_cell_walkable(<<n[1], n[2] + 1, n[3]>>, g) THEN << <<n[1], n[2] + 1, n[3]>> >>
    ELSE IF n[2] > 0 /\ is_cell_walkable(<<n[1], n[2] - 1, n[3]>>, g)
    THEN << <<n[1], n[2] - 1, n[3]>> >>
    ELSE <<>>
RECURSIVE AirPushes(_, _, _)
AirPushes(g, hn, k) ==
    IF k > Len(hn) THEN <<>> ELSE AirPush(g, hn[k]) \o AirPushes(g, hn, k + 1)
\* a cell that pushes its 4 horizontal neighbours without a test
PushesUnchecked(g, cell) == horizontal_neighbours(cell, g.shape, FALSE)
\* map.rs:360-385, the cells a popped cell appends to the queue, in order
Pushes(g, cell) ==
    IF g.at[cell] = 0
    THEN AirPushes(g, horizontal_neighbours(cell, g.shape, FALSE), 1)
    ELSE SelectSeq(neighbours(cell, g.shape, TRUE), LAMBDA c : is_cell_walkable(c, g))

\* the pushes of the cells of a sequence, in order
RECURSIVE AllPushes(_, _, _)
AllPushes(g, cells, k) ==
    IF k > Len(cells) THEN <<>> ELSE Pushes(g, cells[k]) \o AllPushes(g, cells, k + 1)
\* map.rs:347-386, the loop over the queue cells_to_see, one generation of the
\* queue at a time: the cells of the queue not marked yet are marked, in queue
\* order, and what they push is the next generation.  marked is the set of
\* cells with walkable_grid # 0.
RECURSIVE Flood(_, _, _)
Flood(g, queue, marked) ==
    IF queue = <<>> THEN [err |-> "", marked |-> marked]
    ELSE IF \E k \in 1 .. Len(queue) : ~InGrid(queue[k], g.shape)
    THEN [err |-> "Cell index out of bounds", marked |-> marked]
    ELSE LET first == SelectSeq([k \in 1 .. Len(queue) |-> k], LAMBDA k :
                          /\ queue[k] \notin marked
                          /\ \A j \in 1 .. (k - 1) : queue[j] # queue[k])
             fresh == [i \in 1 .. Len(first) |-> queue[first[i]]]
         IN  Flood(g, AllPushes(g, fresh, 1), marked \cup Range(fresh))
\* map.rs:357-358, the mark of a cell the flood reached
Mark(g, marked) ==
    Array3(g.shape, [c \in Cells(g.shape) |->
        IF c \in marked THEN (IF g.at[c] = 6 THEN 2 ELSE 1) ELSE 0])
\* the walkable grid without the flood: every cell is_cell_walkable accepts
AllWalkable(g, map_bounds, spawns) ==
    [err |-> "", wg |-> Mark(g, {c \in Cells(g.shape) : is_cell_walkable(c, g)})]
\* map.rs:321-389; "panic" is the panic of indexing the grid with a seed
generate_walkable_grid(g, map_bounds, spawns) ==
    LET seeds == Seeds(g, map_bounds, spawns)
    IN  IF \E k \in 1 .. Len(seeds) : seeds[k] = <<>>
        THEN [err |-> "panic", wg |-> Mark(g, {})]
        ELSE LET f == Flood(g, seeds, {})
             IN  [err |-> f.err, wg |-> Mark(g, f.marked)]

\* map.rs:108-146, Map::new
MapNew(raw) ==
    LET f == filter_objects(raw)
        e == IF f.err # "" THEN f.err ELSE SpawnError(raw.spawns, 1)
        g == generate_grid(f.bounds,
                 generate_object_chunks(f.bounds, f.objects, f.ramps, f.ladders))
    IN  IF e # ""
        THEN [err |-> e, bounds |-> zero, grid |-> Array3(<<0, 0, 0>>, <<>>),
              walkable_grid |-> Array3(<<0, 0, 0>>, <<>>)]
        ELSE LET w == generate_walkable_grid(g, f.bounds, ParseSpawns(raw.spawns))
             IN  [err |-> w.err, bounds |-> f.bounds, grid |-> g, walkable_grid |-> w.wg]

(* ----------------------------------------------- queries on the Map *)
\* what a query returns: None, Some(v), or a panic of the indexing
None == [kind |-> "None", v |-> <<>>]
Some(v) == [kind |-> "Some", v |-> v]
Panicked == [kind |-> "panic", v |-> <<>>]

\* map.rs:570, 0..(PLAYER_HEIGHT * 2.0 as usize)
ScanOffsets == 2 * PLAYER_HEIGHT
\* map.rs:569-581, the i-th test of the scan over the columns cols: column,
\* offset, and the cell above (side 0) or below (side 1); <<>> if the guard of
\* the test skips it
ScanCell(wg, cols, i) ==
    LET col == cols[(i - 1) \div (2 * ScanOffsets) + 1]
        o == ((i - 1) % (2 * ScanOffsets)) \div 2
    IN  IF (i - 1) % 2 = 0
        THEN IF col[2] + o < wg.shape[2] THEN <<col[1], col[2] + o, col[3]>> ELSE <<>>
        ELSE IF col[2] >= o THEN <<col[1], col[2] - o, col[3]>> ELSE <<>>
\* map.rs:569-583, the scan stops at the first test that indexes outside the
\* grid or finds a marked cell
Scan(wg, cols) ==
    LET stops == {i \in 1 .. (Len(cols) * 2 * ScanOffsets) :
                     LET c == ScanCell(wg, cols, i)
                     IN  c # <<>> /\ (~InGrid(c, wg.shape) \/ wg.at[c] # 0)}
    IN  IF stops = {} THEN None
        ELSE LET c == ScanCell(wg, cols, CHOOSE i \in stops : \A j \in stops : i <= j)
             IN  IF InGrid(c, wg.shape) THEN Some(c) ELSE Panicked
\* map.rs:557-584
closest_walkable_cell(wg, map_bounds, p) ==
    IF ~contains(map_bounds, p) THEN None
    ELSE LET cell == position_to_cell(map_bounds, p)
         IN  Scan(wg, <<cell>> \o horizontal_neighbours(cell, wg.shape, TRUE))

\* map.rs:598-619, the cost of stepping from cell to its neighbour c, or 0 if
\* c is no successor
StepCost(wg, cell, c) ==
    IF wg.at[c] = 1
    THEN IF \E n \in Range(horizontal_neighbours(c, wg.shape, TRUE)) :
                /\ wg.at[n] = 0
                /\ wg.at[<<n[1], n[2] + 1, n[3]>>] = 0
                /\ wg.at[<<n[1], n[2] - 1, n[3]>>] = 0
         THEN 3
         ELSE IF cell[2] = c[2] THEN 1 ELSE 2
    ELSE IF wg.at[c] = 2 THEN 3
    ELSE 0
\* map.rs:598-619, the successors of a cell
successors(wg, cell) ==
    {c \in Range(neighbours(cell, wg.shape, FALSE)) : StepCost(wg, cell, c) > 0}

\* the successor steps between marked cells as triples <<cell, successor, cost>>
Steps(wg) ==
    UNION {{<<cell, c, StepCost(wg, cell, c)>> : c \in successors(wg, cell)} :
           cell \in {c \in Cells(wg.shape) : wg.at[c] # 0}}
\* the cells with a chain of steps to end, by the cost of the cheapest one:
\* layers[k + 1] holds the cells of cost k, rest the cells not reached so far
\* (a set of one element binds a value that is computed once)
RECURSIVE CostLayers(_, _, _)
CostLayers(steps, layers, rest) ==
    LET k == Len(layers)
        next == {c \in rest : \E e \in steps :
                    e[1] = c /\ e[3] <= k /\ e[2] \in layers[k - e[3] + 1]}
    IN  IF rest = {} \/ (k >= 3 /\ layers[k] = {} /\ layers[k - 1] = {} /\ layers[k - 2] = {})
        THEN layers
        ELSE CHOOSE r \in {CostLayers(steps, l, rest \ l[Len(l)]) :
                              l \in {Append(layers, next)}} : TRUE
\* the cheapest chains of steps from a cell of layers[k + 1] to the end cell
RECURSIVE CheapestPaths(_, _, _, _)
CheapestPaths(steps, layers, cell, k) ==
    IF k = 0 THEN {<<cell>>}
    ELSE UNION {{<<cell>> \o p : p \in CheapestPaths(steps, layers, e[2], k - e[3])} :
                e \in {e \in steps :
                          e[1] = cell /\ e[3] <= k /\ e[2] \in layers[k - e[3] + 1]}}

\* the largest integer whose square is at most n
ISqrt(n) == CHOOSE r \in 0 .. n : r * r <= n /\ (r + 1) * (r + 1) > n
\* the squared distance of two cells
SquaredDistance(cell, end_cell) ==
    (cell[1] - end_cell[1]) * (cell[1] - end_cell[1])
        + (cell[2] - end_cell[2]) * (cell[2] - end_cell[2])
        + (cell[3] - end_cell[3]) * (cell[3] - end_cell[3])
\* map.rs:623-629, the floor of the distance from the cell to the end cell
heuristic(cell, end_cell) == ISqrt(SquaredDistance(cell, end_cell))
\* the sum of the step costs of a chain of cells from its k-th cell on
RECURSIVE PathCost(_, _, _)
PathCost(wg, p, k) ==
    IF k >= Len(p) THEN 0 ELSE StepCost(wg, p[k], p[k + 1]) + PathCost(wg, p, k + 1)

\* map.rs:656-673, the corridor test from from_cell to cell: "underflow" if a
\* lower end min - 1 of the x or z range is below 0 in usize, else "ok", "gap" at
\* the first column without a walkable cell, "panic" at a column outside the grid
Corridor(wg, from_cell, cell) ==
    LET xs == (Min(cell[1], from_cell[1]) - 1) .. (Max(cell[1], from_cell[1]) + 1)
        zs == (Min(cell[3], from_cell[3]) - 1) .. (Max(cell[3], from_cell[3]) + 1)
        ys == Min(cell[2], from_cell[2]) .. Max(cell[2], from_cell[2])
        gap(x, z) == \A y \in ys : InGrid(<<x, y, z>>, wg.shape) /\ wg.at[<<x, y, z>>] = 0
        outside(x, z) == \E y \in ys : ~InGrid(<<x, y, z>>, wg.shape)
        before(a, b) == a[1] < b[1] \/ (a[1] = b[1] /\ a[2] < b[2])
        stops == {c \in xs \X zs : gap(c[1], c[2]) \/ outside(c[1], c[2])}
    IN  IF Min(cell[1], from_cell[1]) = 0 \/ Min(cell[3], from_cell[3]) = 0 THEN "underflow"
        ELSE IF stops = {} THEN "ok"
        ELSE LET c == CHOOSE c \in stops : \A o \in stops : o = c \/ before(c, o)
             IN  IF gap(c[1], c[2]) THEN "gap" ELSE "panic"
\* map.rs:654-677, the loop of simplify_path from the k-th cell of the path on.
\* An underflow of min - 1 panics in a build with overflow checks; without them
\* it wraps to usize::MAX, the range is empty and no column is tested.
RECURSIVE Simplify(_, _, _, _, _, _, _)
Simplify(wg, p, k, simplified, from_cell, last_cell, overflow_checks) ==
    IF k > Len(p) THEN Some(Append(simplified, last_cell))
    ELSE IF p[k][1] # last_cell[1] \/ p[k][3] # last_cell[3]
    THEN LET c == Corridor(wg, from_cell, p[k])
         IN  IF c = "panic" \/ (c = "underflow" /\ overflow_checks) THEN Panicked
             ELSE IF c = "gap"
             THEN Simplify(wg, p, k + 1, Append(simplified, last_cell), last_cell, p[k],
                           overflow_checks)
             ELSE Simplify(wg, p, k + 1, simplified, from_cell, p[k], overflow_checks)
    ELSE Simplify(wg, p, k + 1, simplified, from_cell, p[k], overflow_checks)
\* a path cut to its two ends
SimplifyToEnds(wg, p, overflow_checks) == Some(<<p[1], p[Len(p)]>>)
\* map.rs:642-681
simplify_path(wg, p, overflow_checks) ==
    IF Len(p) <= 2 THEN Some(p) ELSE Simplify(wg, p, 3, <<p[1]>>, p[1], p[2], overflow_checks)

(* ------------------------------------------- Map::new and its queries *)
\* a collidable raw object of the size with index si and the id i
Shape(p, si, i) == RawObject(p, <<si>>, i, <<>>, <<>>, <<>>)
\* a spawn entry with its three coordinates
SpawnAt(x, y, z) == << <<x>>, <<y>>, <<z>> >>
\* a length of n cells and m quarters of a cell
Len4(n, m) == n * CELL_SIZE + m * (CELL_SIZE \div 4)

\* the size table of the floor maps: a floor of 7 x 7 cells two cells thick, a
\* pillar of 8 cells, a box two cells high, half a floor, a block of one cell,
\* a bar of three cells
FloorSizes ==
    <<Len4(7, 0), Len4(2, 0), Len4(7, 0),
      Len4(1, 0), Len4(8, 0), Len4(1, 0),
      Len4(1, 0), Len4(2, 0), Len4(1, 0),
      Len4(3, 0), Len4(2, 0), Len4(5, 0),
      Len4(1, 0), Len4(1, 0), Len4(1, 0),
      Len4(3, 0), Len4(1, 0), Len4(1, 0)>>
Floor == Shape(<<0, 0, 0>>, 0, <<>>)
Pillar == Shape(<<-Len4(3, 0), 0, -Len4(3, 0)>>, 1, <<>>)
\* the spawn in the air over the floor cell (1, 1)
CornerSpawn == SpawnAt(-Len4(2, 0), Len4(2, 1), -Len4(2, 0))

\* the 10 x 10 x 10 box at the origin with the spawn (0, 6, 0)
BoxMap ==
    RawMap(<<100000, 100000, 100000>>, <<Shape(<<0, 0, 0>>, 0, <<>>)>>,
           <<SpawnAt(0, 60000, 0)>>)
\* a box of 12 x 24 x 12, whose extents are whole numbers of cells, no spawn
AlignedBoxMap ==
    RawMap(<<120000, 240000, 120000>>, <<Shape(<<0, 0, 0>>, 0, <<>>)>>, <<>>)
\* an open floor
OpenMap == RawMap(FloorSizes, <<Floor, Pillar>>, <<CornerSpawn>>)
\* a floor with a box in its middle
ObstacleMap ==
    RawMap(FloorSizes, <<Floor, Pillar, Shape(<<0, Len4(2, 0), 0>>, 2, <<>>)>>,
           <<CornerSpawn>>)
\* two floors with a pit between them, and a spawn over each or over one
PitMap(spawns) ==
    RawMap(FloorSizes,
           <<Shape(<<-Len4(2, 0), 0, 0>>, 3, <<>>), Shape(<<Len4(2, 0), 0, 0>>, 3, <<>>),
             Shape(<<-Len4(3, 0), 0, -Len4(2, 0)>>, 1, <<>>)>>,
           spawns)
PitSpawnA == SpawnAt(-Len4(2, 0), Len4(2, 1), -Len4(1, 0))
PitSpawnB == SpawnAt(Len4(2, 0), Len4(2, 1), -Len4(1, 0))
\* an open floor whose spawn lies in the lower cell of the floor
DeepSpawnMap ==
    RawMap(FloorSizes, <<Floor, Pillar>>, <<SpawnAt(-Len4(2, 0), Len4(0, 1), -Len4(2, 0))>>)
\* an open floor with a ramp of one cell and a ladder of three cells on it
RampMap ==
    RawMap(FloorSizes,
           <<Floor, Pillar,
             RawObject(<<-Len4(1, 0), Len4(2, 0), -Len4(1, 0)>>, <<4>>, <<9>>, <<>>, <<>>, <<>>),
             Shape(<<Len4(1, 0), Len4(2, 0), Len4(1, 0)>>, 5, <<3>>)>>,
           <<CornerSpawn>>)
\* an open floor with a spawn in the top cell of the pillar
HighSpawnMap ==
    RawMap(FloorSizes, <<Floor, Pillar>>,
           <<CornerSpawn, SpawnAt(-Len4(3, 0), Len4(7, 1), -Len4(3, 0))>>)
\* an open floor with a spawn two cells beyond its max_x face
FarSpawnMap ==
    RawMap(FloorSizes, <<Floor, Pillar>>,
           <<CornerSpawn, SpawnAt(Len4(5, 0), Len4(2, 1), 0)>>)
\* a spawn with a null coordinate, a short spawn, a size index outside the table
NullSpawnMap == RawMap(FloorSizes, <<Floor, Pillar>>, <<CornerSpawn, << <<0>>, <<>>, <<0>> >> >>)
ShortSpawnMap == RawMap(FloorSizes, <<Floor, Pillar>>, << << <<0>>, <<0>> >> >>)
BadSizeMap == RawMap(FloorSizes, <<Floor, Shape(<<0, 0, 0>>, 6, <<>>)>>, <<CornerSpawn>>)
\* a strip of 135 x 1 x 1 cells over two chunks: boxes, ramps and a ladder
\* inside a chunk, across the chunk border and across cell borders, and objects
\* that filter_objects drops
StripMap ==
    RawMap(<<Len4(10, 0), Len4(1, 0), Len4(1, 0),
             Len4(2, 0), Len4(1, 0), Len4(1, 0),
             Len4(4, 0), Len4(1, 0), Len4(1, 0),
             Len4(1, 2), Len4(1, 0), Len4(1, 0),
             Len4(1, 0)>>,
           <<Shape(<<Len4(5, 0), 0, 0>>, 0, <<>>),
             Shape(<<Len4(130, 0), 0, 0>>, 1, <<>>),
             RawObject(<<Len4(132, 0), 0, 0>>, <<1>>, <<9>>, <<>>, <<>>, <<2>>),
             RawObject(<<Len4(133, 0), 0, 0>>, <<2>>, <<9>>, <<>>, <<>>, <<1>>),
             Shape(<<Len4(134, 0), 0, 0>>, 1, <<3>>),
             Shape(<<Len4(61, 0), 0, 0>>, 3, <<>>),
             RawObject(<<Len4(128, 2), 0, 0>>, <<3>>, <<9>>, <<>>, <<>>, <<>>),
             RawObject(<<Len4(100, 0), 0, 0>>, <<0>>, <<>>, <<1>>, <<>>, <<>>),
             Shape(<<Len4(110, 0), 0, 0>>, 0, <<13>>),
             RawObject(<<Len4(120, 0), 0, 0>>, <<>>, <<>>, <<>>, <<>>, <<>>)>>,
           <<>>)
\* the floor with the box, with the spawn over the floor cell (0, 3) at its edge
EdgeSpawnMap ==
    RawMap(FloorSizes, <<Floor, Pillar, Shape(<<0, Len4(2, 0), 0>>, 2, <<>>)>>,
           <<SpawnAt(-Len4(3, 0), Len4(2, 1), 0)>>)
RawMaps ==
    {BoxMap, AlignedBoxMap, OpenMap, ObstacleMap, EdgeSpawnMap, PitMap(<<PitSpawnA, PitSpawnB>>), PitMap(<<PitSpawnA>>),
     DeepSpawnMap, RampMap, HighSpawnMap, FarSpawnMap, NullSpawnMap, ShortSpawnMap, BadSizeMap, StripMap}

\* everything but the Map
nonMapVars ==
    <<prime, ws_write, num, messages, readerVars, wire, encodes, playerVars, taskVars,
      logVars>>
\* a RawMap of the catalogue, before Map::new is called on it
InitMap ==
    /\ InitPlayer({11}, {NoAccount}, {<<>>})
    /\ raw_map \in RawMaps
    /\ loaded = "no"
    /\ bounds = zero
    /\ grid = Array3(<<0, 0, 0>>, <<>>)
    /\ walkable_grid = Array3(<<0, 0, 0>>, <<>>)
    /\ answer = NoAnswer

\* map.rs:108-146, Map::new(raw_map) returns
LoadMap ==
    /\ loaded = "no"
    /\ LET m == MapNew(raw_map)
       IN  /\ loaded' = IF m.err = "" THEN "ok" ELSE m.err
           /\ bounds' = m.bounds
           /\ grid' = m.grid
           /\ walkable_grid' = m.walkable_grid
    /\ UNCHANGED <<raw_map, answer, nonMapVars>>

\* the cells marked walkable
WalkableCells == {c \in Cells(walkable_grid.shape) : walkable_grid.at[c] # 0}
\* positions to ask for: under, on and over each face of the bounds, and inside
QueryPositions ==
    {Vec3(x, y, z) :
        x \in {bounds.min_x - 1, bounds.min_x, bounds.min_x + Len4(2, 2), bounds.max_x},
        y \in {bounds.min_y + Len4(2, 2), bounds.min_y + Len4(7, 2), bounds.max_y,
               bounds.max_y + 1},
        z \in {bounds.min_z, bounds.min_z + Len4(1, 2), bounds.max_z}}

\* map.rs:557-584, one call of closest_walkable_cell
ClosestWalkableCell ==
    /\ loaded = "ok"
    /\ answer = NoAnswer
    /\ \E p \in QueryPositions :
          answer' = [op |-> "closest_walkable_cell", arg |-> p, via |-> <<>>,
                     val |-> closest_walkable_cell(walkable_grid, bounds, p)]
    /\ UNCHANGED <<raw_map, loaded, bounds, grid, walkable_grid, nonMapVars>>

\* map.rs:586-640, one call of find_path between walkable cells: astar returns
\* one of the cheapest successor chains, or None if there is no chain; the build
\* has overflow checks or has none
FindPath ==
    /\ loaded = "ok"
    /\ answer = NoAnswer
    /\ \E steps \in {Steps(walkable_grid)}, cells \in {WalkableCells} :
       \E end \in cells :
       \E layers \in {CostLayers(steps, <<{end}>>, cells \ {end})} :
       \E start \in cells :
          IF \E k \in 1 .. Len(layers) : start \in layers[k]
          THEN \E p \in CheapestPaths(steps, layers, start,
                             (CHOOSE k \in 1 .. Len(layers) : start \in layers[k]) - 1) :
               \E overflow_checks \in BOOLEAN :
                  answer' = [op |-> "find_path", arg |-> <<start, end>>, via |-> p,
                             val |-> simplify_path(walkable_grid, p, overflow_checks)]
          ELSE answer' = [op |-> "find_path", arg |-> <<start, end>>,
                          via |-> <<>>, val |-> None]
    /\ UNCHANGED <<raw_map, loaded, bounds, grid, walkable_grid, nonMapVars>>

\* Map::new and the cell queries
NextMap == LoadMap \/ ClosestWalkableCell
SpecMap == InitMap /\ [][NextMap]_vars
\* Map::new and the path queries
NextPath == LoadMap \/ FindPath
SpecPath == InitMap /\ [][NextPath]_vars

(* ------------------------------------- more claims on the Socket *)
\* C36: for every prime and every value num reaches, the sum num + prime that
\* encode_message computes fits in 16 bits, and num is at most 255 after the
\* encode.
C36_SumFitsU16 ==
    [][encodes' = encodes + 1 => (~OverflowsU16(num, prime) /\ num' <= 255)]_vars

\* C37: a send that fails, the writer not open or the write returning an error,
\* puts no frame on the wire and leaves num as it was.
C37_FailedSendKeepsNum ==
    [][(encodes' = encodes + 1 /\ wire' = wire) => num' = num]_vars

(* ------------------------------------- more claims on the Player *)
\* this step of tick() of task t handles a message of the type
Handles(t, type) == Handling(t, type) /\ pending'[t] = Tail(pending[t])
\* this step puts nothing on the wire, or exactly the frame of msg
AppendsAtMost(msg) ==
    \/ wire' = wire
    \/ /\ Len(wire') = Len(wire) + 1
       /\ wire' = Append(wire, wire'[Len(wire')])
       /\ wire'[Len(wire')].op = "binary"
       /\ wire'[Len(wire')].msg = msg

\* C33: a Player built with an account never has ready = true, whatever the
\* server sends: its handler of "ready" sends at most the login frame and its
\* handler of "init" sends and encodes nothing, so neither sends "en".
C33_AccountNeverReady ==
    [][account # <<>> =>
          /\ ~ready /\ ~ready'
          /\ \A t \in Tasks :
                /\ Handles(t, S_ready) => AppendsAtMost(login(account[1]))
                /\ Handles(t, S_init) => (wire' = wire /\ encodes' = encodes)]_vars
\* a Player with an account has answered "ready" with its login frame, then
\* handled the "init" that followed it (the session "ready", "init", spawn,
\* close), and is not ready
C33_Witness ==
    /\ account # <<>>
    /\ ~ready
    /\ \E k \in 1 .. Len(wire) : wire[k].op = "binary" /\ wire[k].msg = login(account[1])
    /\ nRead = 2
    /\ stream = <<F_spawn, F_close>>
    /\ messages = <<>>
    /\ \A t \in Tasks : pending[t] = <<>>

\* C34: every init_tick on the wire carries 0, and every other "q" frame (of
\* tick, walk or shoot) carries the number of the "q" frame before it plus 1:
\* between a spawn and the next spawn or death the numbers are consecutive,
\* with no gap and no repeat.
C34_TickNumbersConsecutive ==
    /\ \A i \in 1 .. Len(QFrames) : IsInitTick(QFrames[i]) => QTick(QFrames[i]) = 0
    /\ \A i \in 1 .. (Len(QFrames) - 1) :
          IsInitTick(QFrames[i + 1]) \/ QTick(QFrames[i + 1]) = QTick(QFrames[i]) + 1
\* an init_tick, then a frame of walk or shoot, then a regular tick frame
C34_Witness ==
    /\ Len(QFrames) >= 3
    /\ IsInitTick(QFrames[1])
    /\ ~IsInitTick(QFrames[2]) /\ QFrames[2].msg.v[7] # Nil
    /\ ~IsInitTick(QFrames[3]) /\ QFrames[3].msg.v[7] = Nil
    /\ QTick(QFrames[3]) = 2

(* ------------------------------------ a second life (SpecRespawn) *)
\* what the server sends to a Player in game: its death and the respawn; a
\* spawn that names it again; an update and a death
RespawnSessions ==
    {<<F_dead, F_spawn>>, <<F_spawn_both, F_alive>>, <<F_alive, F_dead>>}

\* the frames a first life puts on the wire: the init_tick, the regular ticks
\* with 1 and 2, and the enter frame of the death handler
LifeFrames == <<init_tick, tick_message(1, <<0>>, Nil), tick_message(2, <<0>>, Nil), enter>>
\* the first n of them as encode_message returns them with the prime 11
LifeWire(n) == [k \in 1 .. n |-> EncodeMessage(LifeFrames[k], (k * 11) % 256)]
\* the snapshot tick() pushes after the regular tick with tk - 1
LifeState(tk) == State(tk, Vec3(10000, 20000, 30000), 0, FALSE)

\* The Player of the session "io-init", spawn, either in game after the first
\* regular tick of its life (player.rs:287-310: tick is 2, the snapshot of tick
\* 2 is in state_buffer), or dead after its second regular tick, the death
\* handler having entered again (player.rs:385-388), with the server's spawn to
\* come.  The counters nRead and encodes of the bounds start at 0 again.
InitRespawn ==
    /\ prime = 11
    /\ NoMapLoaded
    /\ \/ /\ in_game = TRUE
          /\ stream \in RespawnSessions
          /\ tick = 2
          /\ state_buffer = <<LifeState(2)>>
          /\ wire = LifeWire(2)
          /\ num = (2 * 11) % 256
       \/ /\ in_game = FALSE
          /\ stream = <<F_spawn>>
          /\ tick = 3
          /\ state_buffer = <<LifeState(2), LifeState(3)>>
          /\ wire = LifeWire(4)
          /\ num = (4 * 11) % 256
    /\ ws_write = TRUE
    /\ messages = <<>>
    /\ readerPc = "reading"
    /\ nRead = 0
    /\ encodes = 0
    /\ account = NoAccount
    /\ id = <<OwnId>>
    /\ disconnected = FALSE
    /\ ready = FALSE
    /\ walking = FALSE
    /\ position = Vec3(10000, 20000, 30000)
    /\ rotation = 0
    /\ map = FALSE
    /\ lock = "none"
    /\ pc = [t \in Tasks |-> IF t = "ticker" THEN "interval" ELSE "idle"]
    /\ pending = [t \in Tasks |-> <<>>]
    /\ out = [t \in Tasks |-> 0]
    /\ ret = NoRet
    /\ calls = 0
    /\ path = 0
    /\ recvLog = <<>>
    /\ drained = <<>>
    /\ encLog = <<>>

NextRespawn ==
    \/ ReaderRecv
    \/ TickerWake
    \/ \E t \in Tasks : TickWritten(t)
    \/ \E t \in Tasks : TickEnd(t)
    \/ \E t \in Tasks : RespWritten(t)
    \/ \E t \in Tasks : OnSpawn(t)
    \/ \E t \in Tasks : SpawnWritten(t)
    \/ \E t \in Tasks : OnPlayerUpdate(t)
    \/ \E t \in Tasks : SleepEnd(t)
SpecRespawn == InitRespawn /\ [][NextRespawn]_vars

\* C35: in every reachable state the snapshots of state_buffer are in strictly
\* increasing tick order from front to back, also after a death and a respawn.
C35_StateBufferStrictlyIncreasing ==
    \A i \in 1 .. (Len(state_buffer) - 1) :
        state_buffer[i].tick < state_buffer[i + 1].tick

(* --------------------------------------------------- claims on the Map *)
\* C23: for the raw map with the one 10 x 10 x 10 box at the origin and the
\* spawn (0, 6, 0), Map::new succeeds, the bounds enclose the box and the
\* spawn, the cell that contains the spawn is marked walkable, and no cell
\* with occupancy 1 is marked walkable.
C23_BoxMapVoxelized ==
    (raw_map = BoxMap /\ loaded # "no") =>
        /\ loaded = "ok"
        /\ bounds = extend_by(bounds, AABB(-50000, 0, -50000, 50000, 100000, 50000))
        /\ contains(bounds, Vec3(0, 60000, 0))
        /\ walkable_grid.at[position_to_cell(bounds, Vec3(0, 60000, 0))] # 0
        /\ \A c \in Cells(grid.shape) : grid.at[c] = 1 => walkable_grid.at[c] = 0

\* the shapes of a list that intersect the cell
Hits(map_bounds, cell, shapes, ramp) ==
    {k \in 1 .. Len(shapes) :
        intersects(cell_bounds(map_bounds, cell), IF ramp THEN shapes[k].bounds ELSE shapes[k])}
\* C30: the occupancy code generate_grid computes for a cell through the
\* chunks is the code of the shapes of the whole map that intersect the cell:
\* 6 if a ladder does, else 1 if an object does, else 2 + direction of a ramp
\* that does, else 0.
C30_ChunkedEqualsDirect ==
    loaded = "ok" =>
        \A f \in {filter_objects(raw_map)} : \A c \in Cells(grid.shape) :
            IF Hits(bounds, c, f.ladders, FALSE) # {} THEN grid.at[c] = 6
            ELSE IF Hits(bounds, c, f.objects, FALSE) # {} THEN grid.at[c] = 1
            ELSE IF Hits(bounds, c, f.ramps, TRUE) # {}
            THEN \E k \in Hits(bounds, c, f.ramps, TRUE) : grid.at[c] = 2 + f.ramps[k].direction
            ELSE grid.at[c] = 0
\* a map of more than one chunk is built: an object lies across the border of
\* two chunks, and a ladder, a ramp and air are found in its cells
C30_Witness ==
    /\ loaded = "ok"
    /\ chunk_shape(bounds)[1] > 1
    /\ \E f \in {filter_objects(raw_map)} : \E k \in 1 .. Len(f.objects) :
          /\ intersects(chunk_bounds(bounds, 0, 0), f.objects[k])
          /\ intersects(chunk_bounds(bounds, 1, 0), f.objects[k])
    /\ {0, 1, 2, 4, 6} \subseteq {grid.at[c] : c \in Cells(grid.shape)}

\* the cells of the grid that the spawns seed
SeedCells ==
    {s \in Range(Seeds(grid, bounds, ParseSpawns(raw_map.spawns))) :
        s # <<>> /\ InGrid(s, grid.shape)}
\* the neighbour rules as the claim words them: an air cell pushes, for each of
\* its 4 horizontal neighbours, the neighbour or else the cell above or below
\* it; a ramp or ladder cell pushes its walkable cells among the 26 neighbours
RampLadderPushes(g, cell) ==
    IF g.at[cell] = 0 \/ g.at[cell] >= 2 THEN Range(Pushes(g, cell)) ELSE {}
\* the same with the rule of the 26 neighbours for every occupied cell
OccupiedPushes(g, cell) == Range(Pushes(g, cell))
\* the cells that chains of pushes reach from the cells of front; solid tells
\* whether a solid cell pushes too
RECURSIVE Chained(_, _, _, _)
Chained(g, reached, front, solid) ==
    LET next == UNION {IF solid THEN OccupiedPushes(g, c) ELSE RampLadderPushes(g, c) :
                       c \in front} \ reached
    IN  IF next = {} THEN reached
        ELSE CHOOSE r \in {Chained(g, reached \cup n, n, solid) : n \in {next}} : TRUE

ScannedCells(p) ==
    LET cell == position_to_cell(bounds, p)
        cols == <<cell>> \o horizontal_neighbours(cell, walkable_grid.shape, TRUE)
    IN  SelectSeq([i \in 1 .. (Len(cols) * 2 * ScanOffsets) |-> ScanCell(walkable_grid, cols, i)],
                  LAMBDA c : c # <<>> /\ InGrid(c, walkable_grid.shape))
\* C26: closest_walkable_cell(p) returns None for a position outside the
\* bounds; for a position inside them it returns the first marked cell of the
\* scan over the column of p and its 8 neighbour columns, or None if the scan
\* meets no marked cell.
C26_ClosestIsFirstScanned ==
    answer.op = "closest_walkable_cell" =>
        IF ~contains(bounds, answer.arg) THEN answer.val = None
        ELSE \A marked \in {SelectSeq(ScannedCells(answer.arg),
                                       LAMBDA c : walkable_grid.at[c] # 0)} :
                answer.val = IF marked = <<>> THEN None ELSE Some(marked[1])

\* the cells joined to the cells of front by chains of successor steps
RECURSIVE Component(_, _)
Component(reached, front) ==
    LET next == UNION {successors(walkable_grid, c) : c \in front} \ reached
    IN  IF next = {} THEN reached
        ELSE CHOOSE r \in {Component(reached \cup n, n) : n \in {next}} : TRUE
\* every successive pair of the sequence is a successor step
IsChain(p) ==
    \A i \in 1 .. (Len(p) - 1) : p[i + 1] \in successors(walkable_grid, p[i])

\* C24: for marked cells start and end in one component of the
\* successor relation find_path returns a sequence from start to end in which
\* every successive pair is a successor step; for cells in different
\* components it returns None.
C24_PathOfSuccessorSteps ==
    answer.op = "find_path" =>
        IF answer.arg[2] \in Component({answer.arg[1]}, {answer.arg[1]})
        THEN /\ answer.val.kind = "Some"
             /\ answer.val.v[1] = answer.arg[1]
             /\ answer.val.v[Len(answer.val.v)] = answer.arg[2]
             /\ IsChain(answer.val.v)
        ELSE answer.val = None

\* the corridor from a to b: every column (x, z) of the box the two cells span
\* has a marked cell with y between a.y and b.y
CorridorOfWalkable(a, b) ==
    \A x \in Min(a[1], b[1]) .. Max(a[1], b[1]) :
    \A z \in Min(a[3], b[3]) .. Max(a[3], b[3]) :
    \E y \in Min(a[2], b[2]) .. Max(a[2], b[2]) : walkable_grid.at[<<x, y, z>>] > 0
\* C25: every successive pair (a, b) of the path simplify_path returns has the
\* corridor of walkable cells from a to b.
C25_CorridorOfWalkable ==
    (answer.op = "find_path" /\ answer.val.kind = "Some") =>
        \A i \in 1 .. (Len(answer.val.v) - 1) :
            CorridorOfWalkable(answer.val.v[i], answer.val.v[i + 1])

\* the cell n has air at n.y - 2, n.y - 1 and n (a ledge), or a solid at n.y + 1
\* (an overhang); a cell outside the grid is neither
LedgeOrOverhang(g, n) ==
    \/ /\ \A d \in 0 .. 2 : InGrid(<<n[1], n[2] - d, n[3]>>, g.shape)
       /\ \A d \in 0 .. 2 : g.at[<<n[1], n[2] - d, n[3]>>] = 0
    \/ /\ InGrid(<<n[1], n[2] + 1, n[3]>>, g.shape)
       /\ g.at[<<n[1], n[2] + 1, n[3]>>] = 1
\* the 4 axis neighbours of a cell on its level
AxisOffsets == {<<-1, 0, 0>>, <<1, 0, 0>>, <<0, 0, -1>>, <<0, 0, 1>>}
\* the 4 diagonal neighbours of a cell on its level
DiagonalOffsets == {<<-1, 0, -1>>, <<-1, 0, 1>>, <<1, 0, -1>>, <<1, 0, 1>>}
\* is_cell_walkable rejects every air cell of the grid that has a ledge or an
\* overhang at one of the neighbours with the offsets offs
RejectsBy(offs) ==
    \A c \in Cells(grid.shape) :
        (grid.at[c] = 0 /\ \E o \in offs : LedgeOrOverhang(grid, Shift(c, o)))
            => ~is_cell_walkable(c, grid)

\* C31 as worded: is_cell_walkable rejects an air cell if one of its 8
\* horizontal neighbours, the 4 axis neighbours and the 4 diagonals, has a ledge
\* or an overhang.
C31_RejectsByMooreNeighbours ==
    loaded = "ok" => RejectsBy(AxisOffsets \cup DiagonalOffsets)
\* C31: is_cell_walkable rejects an air cell if one of its 4 axis neighbours on
\* its level has air at n.y - 2, n.y - 1 and n, or a solid at n.y + 1.
C31_RejectsByAxisNeighbours ==
    loaded = "ok" => RejectsBy(AxisOffsets)
\* a grid with an air cell that passes every other test of is_cell_walkable
\* (inside the border, free column, ground below, no ramp side) and is rejected
\* for the ledge at an axis neighbour
C31_Witness ==
    /\ loaded = "ok"
    /\ \E c \in Cells(grid.shape) :
          /\ grid.at[c] = 0
          /\ c[1] >= 1 /\ c[1] + 1 < grid.shape[1]
          /\ c[3] >= 1 /\ c[3] + 1 < grid.shape[3]
          /\ c[2] >= 2 /\ c[2] + PLAYER_HEIGHT <= grid.shape[2]
          /\ \A i \in 0 .. (PLAYER_HEIGHT - 2) : grid.at[<<c[1], c[2] + i, c[3]>>] # 1
          /\ grid.at[<<c[1], c[2] - 1, c[3]>>] # 0
          /\ \A o \in AxisOffsets : \A i \in 0 .. 1 :
                grid.at[<<c[1] + o[1], c[2] - i, c[3] + o[3]>>] \notin {2, 3, 4, 5}
          /\ \E o \in AxisOffsets : LedgeOrOverhang(grid, Shift(c, o))
          /\ ~is_cell_walkable(c, grid)

\* Map::new came as far as the spawns, and a spawn has a cell outside the grid,
\* or a cell that is occupied and lies under the top face of the grid
SpawnOutsideGrid ==
    /\ loaded # "no"
    /\ grid.shape # <<0, 0, 0>>
    /\ \E cell \in {position_to_cell(bounds, sp) : sp \in Range(ParseSpawns(raw_map.spawns))} :
          \/ ~InGrid(cell, grid.shape)
          \/ (grid.at[cell] # 0 /\ ~InGrid(<<cell[1], cell[2] + 1, cell[3]>>, grid.shape))
\* C32: Map::new of a raw map with a spawn whose cell lies outside the grid,
\* before or after the step up from an occupied cell, returns the error
\* "Cell index out of bounds" and does not panic.
C32_OutsideSpawnIsError ==
    SpawnOutsideGrid => loaded = "Cell index out of bounds"

\* C38: for every position inside the closed bounds, the positions on the
\* max_x, max_y and max_z faces included, closest_walkable_cell indexes
\* walkable_grid only inside its shape: the call does not end in the panic of
\* an index outside the grid.
C38_ClosestStaysInGrid ==
    (answer.op = "closest_walkable_cell" /\ contains(bounds, answer.arg))
        => answer.val # Panicked

\* C39: after Map::new every marked cell that is not the seed cell of a spawn
\* is accepted by is_cell_walkable on the occupancy grid; it is not solid, has
\* a cell that is not air below it, and is not on the border of the grid in x
\* or z.
C39_MarkedCellsAreWalkable ==
    loaded = "ok" =>
        \A c \in WalkableCells \ SeedCells :
            /\ is_cell_walkable(c, grid)
            /\ grid.at[c] # 1
            /\ c[2] >= 1 /\ grid.at[<<c[1], c[2] - 1, c[3]>>] # 0
            /\ c[1] >= 1 /\ c[1] + 1 < grid.shape[1]
            /\ c[3] >= 1 /\ c[3] + 1 < grid.shape[3]
\* a map is built in which the flood marked cells beyond the seed, and the seed
\* itself is a marked cell that is_cell_walkable rejects
C39_Witness ==
    /\ loaded = "ok"
    /\ WalkableCells \ SeedCells # {}
    /\ \E c \in SeedCells : walkable_grid.at[c] # 0 /\ ~is_cell_walkable(c, grid)

====
